---- MODULE Spec2Model ----
(***************************************************************************)
(* The memcache layer of zond/sybutils (package gae/memcache) together     *)
(* with the parts of package gae and gaecontext that drive it: memoized    *)
(* reads (memoizeMulti), invalidating deletes with retry and durable       *)
(* fallback (Del, delWithRetry, del, delayedDelete), the datastore write   *)
(* that invalidates (gae.Put) and the transaction context.                 *)
(***************************************************************************)
EXTENDS Integers, Sequences, FiniteSets, TLC

\* ---------------------------------------------------------------- bounds
\* longest key batch a caller passes to MemoizeMulti or Del
MaxBatch == 2
\* number of outages of the remote cache service in one behaviour
MaxOutages == 1
\* number of fallback tasks the queue holds before callers stop invalidating
MaxTasks == 1
\* number of times one Transaction call runs its body again
MaxTries == 1
\* the value of a Mutex counter from which on the model counts no further
MaxWaiting == 3
\* number of seeds Memoize2 draws
MaxSeeds == 3
\* number of functions one caller gives to AfterTransaction
MaxCallbacks == 3
\* depth of Transaction calls on a transactional context
MaxDepth == 1

\* ------------------------------------------------------ program constants
regular == 0
nilCache == 1
InitialWaitMs == 10
DeadlineMs == 2000

\* ------------------------------------------------------------- universes
Callers == {"c1", "c2"}
\* the values of the Name field of the one stored entity
Names == {"n1", "n2"}
NoEntity == "NoEntity"
Nil == "nil"
ZeroVal == "zero"
\* the bytes of a value of another type than the destination's
Foreign == "foreign"
NoErr == "nil"
ErrCacheMiss == "ErrCacheMiss"
GenErr == "generator error"
SetErr == "Error doing Codec.Set"
DelErr == "Error doing DeleteMulti"
AddErr == "taskqueue.Add error"
\* the error Codec.Get returns when the service fails
GetErr == "memcache: server error"
\* gob's error when the record holds a value of another type than out
DecodeErr == "gob: type mismatch"
CasGetErr == "Error doing Get"
IncrErr == "Error doing Increment"
ErrConcurrentTransaction == "datastore: concurrent transaction"
CasErr == "Error doing CompareAndSwap"
NoItem == [val |-> Nil, flags |-> regular, present |-> FALSE]
\* how long one remote attempt may take: no time, or the whole deadline
AttemptMs == {0, DeadlineMs}

Min(a, b) == IF a < b THEN a ELSE b
Range(s) == {s[i] : i \in DOMAIN s}

\* ------------------------------------------------------------------ keys
\* A key string is the logical key it was made from and the number of times
\* it went through Keyify: sha1 + base64 is injective on the keys in use and
\* never maps a string to itself.
keyById == [kind |-> "ById", name |-> "-", depth |-> 0]
keyForValues(ancestor, value) == [kind |-> ancestor, name |-> value, depth |-> 0]
Keyify(k) == [k EXCEPT !.depth = @ + 1]

\* the keys memoized reads use: GetById and the registered ancestor finder
ReadKeys == {keyById} \cup {keyForValues("Parent", n) : n \in Names}
\* all keys gae.Put invalidates for a version of the entity
cacheKeys(name) == <<keyForValues("Parent", name), keyForValues("Root", name)>>
\* a faulty variant: the keys of the old version are dropped
MemcacheKeysNewOnly(name, oldKeys) == <<keyById>> \o cacheKeys(name)
MemcacheKeys(name, oldKeys) == oldKeys \o <<keyById>> \o cacheKeys(name)
\* Memoize2: the super key, and fmt.Sprintf("%v@%v", key, seed)
superKey == [kind |-> "Super", name |-> "-", depth |-> 0]
SubKeys == {"a", "b"}
childKey(key, seed) == [kind |-> "Sub", name |-> key, depth |-> 0, seed |-> seed]
LogicalKeys == ReadKeys \cup {keyForValues("Root", n) : n \in Names}
Batches(S) == UNION {[1..n -> S] : n \in 1..MaxBatch}

VARIABLES
    cache,      \* the remote cache: key string -> item, for the keys present
    store,      \* the datastore: the Name of the entity, or NoEntity
    svcUp,      \* whether the remote cache service answers
    outages,    \* outages so far
    tasks,      \* the delayed-memcache-invalidate queue
    inTx,       \* per caller: context.inTransaction
    afterTx,    \* per caller: context.afterTransaction (the closures, see Closure)
    txPut,      \* per caller: the datastore write of the open transaction
    pc,         \* per caller: where the caller is
    ret,        \* per caller: where the running call returns to
    mKeys,      \* memoizeMulti: keys
    mNil,       \* memoizeMulti: cacheNil
    mDest,      \* memoizeMulti: destinationPointers' values
    mErr,       \* memoizeMulti: errors
    mTask,      \* memoizeMulti: the goroutine of each index
    mGen,       \* memoizeMulti: invocations of generatorFunctions[index]
    dKeys,      \* delWithRetry: the keys slice (shared with del)
    dOrig,      \* delWithRetry: the keys the caller gave
    dLoop,      \* delWithRetry: time since the loop began, waitTime, calls of del
    dErr,       \* delWithRetry: err
    pName,      \* gae.Put: the Name being written
    pKeys,      \* gae.Put: memcacheKeys
    tries,      \* per caller: Transaction's tries
    op,         \* per caller: the running or last call of Get or Put (memcache)
    panics,     \* per caller: the indices whose panics the call re-panics with
    MemcacheEnabled, \* the package's switch
    seeds,      \* the number of values drawn from rand.Int63 for seeds
    casCurrent, \* per caller of CAS: the item it read has the casID of the stored record
    lockEntity, \* the Mutex entity of the datastore: the caller that stored it, or none
    lk,         \* per caller of Lock: success, what the transaction read and whether it put
    locked,     \* the callers whose Lock returned nil and that have not called Unlock
    lockExpired, \* whether LockedAt of the Mutex entity is older than the timeout given to Lock
    txDepth,    \* per caller: Transaction calls running on the transactional context
    cbLog,      \* per caller: what the functions given to AfterTransaction have recorded
    cbErr,      \* per caller: the error AfterTransaction returned last
    multiErr    \* per caller: Transaction's multiErr

envVars == <<cache, store, svcUp, outages, tasks>>
txVars == <<inTx, afterTx, txPut, tries>>
memoVars == <<mKeys, mNil, mDest, mErr, mTask, mGen>>
delVars == <<dKeys, dOrig, dLoop, dErr>>
putVars == <<pName, pKeys>>
mutexVars == <<lockEntity, lk, locked, lockExpired>>
cbVars == <<txDepth, cbLog, cbErr, multiErr>>
vars == <<envVars, txVars, pc, ret, memoVars, delVars, putVars, op, panics, MemcacheEnabled, seeds, casCurrent,
         mutexVars, cbVars>>

NoOut == [res |-> Nil, err |-> NoErr]
\* a goroutine: where it is, whether the lookup hit, what the generator returned,
\* found and err, and codecSetWithRetry's clock and waitTime
NoTask == [pc |-> "none", hit |-> FALSE, out |-> NoOut, found |-> FALSE, err |-> NoErr, el |-> 0, wait |-> 0,
           sent |-> 0]
NoLoop == [el |-> 0, wait |-> 0, n |-> 0]
\* ------------------------------------------------------------------- Codec
\* Codec is memcache.Gob. The values of Get, Put and CAS are of two types: a
\* string ("" or not) and a struct of two fields, each zero or not.
GobFields == {"a", "b"}
StringValues == {[kind |-> "string", a |-> x, b |-> 0] : x \in {0, 1}}
StructValues == {[kind |-> "struct", a |-> x, b |-> y] : x \in {0, 1}, y \in {0, 1}}
GobValues == StringValues \cup StructValues
\* no value: a call that passes or returns none
NoVal == [kind |-> "none", a |-> 0, b |-> 0]
\* the zero value of v's type
ZeroOf(v) == [kind |-> v.kind, a |-> 0, b |-> 0]

\* gob sends a value that is not a struct whole, zero or not; of a struct it
\* sends the fields that are not zero
Sent(v) == IF v.kind = "struct" THEN {f \in GobFields : v[f] # 0} ELSE {"a"}
Marshal(v) == [kind |-> v.kind, fields |-> {<<f, v[f]>> : f \in Sent(v)}]

\* gob decodes into a destination of the type that was sent, and assigns the
\* fields that were sent: the others keep what the destination held
Decodable(enc, out) == enc.kind = out.kind
\* a faulty variant: only the first field is assigned
UnmarshalFirstField(enc, out) ==
    [kind |-> out.kind,
     a |-> IF \E p \in enc.fields : p[1] = "a" THEN (CHOOSE p \in enc.fields : p[1] = "a")[2] ELSE out.a,
     b |-> out.b]
Unmarshal(enc, out) ==
    LET field(f) == IF \E p \in enc.fields : p[1] = f
                    THEN (CHOOSE p \in enc.fields : p[1] = f)[2]
                    ELSE out[f]
    IN  [kind |-> out.kind, a |-> field("a"), b |-> field("b")]

\* the key of the counter of the Mutex m
lockKey == [kind |-> "Mutex", name |-> "m", depth |-> 0]
\* the locals and results of Lock: success, the entity the transaction read,
\* whether it put the entity, and err
NoLock == [success |-> FALSE, read |-> NoEntity, put |-> FALSE, err |-> NoErr]

\* the locals and results of Get, putUntil and CAS: key, the value passed
\* (arg) and the value held at the end (val), found and err,
\* codecSetWithRetry's clock and waitTime, and the remote calls made
NoOp == [name |-> "none", key |-> Nil, sub |-> Nil, arg |-> NoVal, val |-> NoVal, flags |-> regular,
         found |-> FALSE, err |-> NoErr, el |-> 0, wait |-> 0, remote |-> {}]

Init ==
    /\ cache = <<>>
    /\ store \in Names \cup {NoEntity}
    /\ svcUp = TRUE
    /\ outages = 0
    /\ tasks = <<>>
    /\ inTx = [c \in Callers |-> FALSE]
    /\ afterTx = [c \in Callers |-> <<>>]
    /\ txPut = [c \in Callers |-> Nil]
    /\ pc = [c \in Callers |-> "idle"]
    /\ ret = [c \in Callers |-> "idle"]
    /\ mKeys = [c \in Callers |-> <<>>]
    /\ mNil = [c \in Callers |-> FALSE]
    /\ mDest = [c \in Callers |-> <<>>]
    /\ mErr = [c \in Callers |-> <<>>]
    /\ mTask = [c \in Callers |-> <<>>]
    /\ mGen = [c \in Callers |-> <<>>]
    /\ dKeys = [c \in Callers |-> <<>>]
    /\ dOrig = [c \in Callers |-> <<>>]
    /\ dLoop = [c \in Callers |-> NoLoop]
    /\ dErr = [c \in Callers |-> NoErr]
    /\ pName = [c \in Callers |-> Nil]
    /\ pKeys = [c \in Callers |-> <<>>]
    /\ tries = [c \in Callers |-> 0]
    /\ op = [c \in Callers |-> NoOp]
    /\ panics = [c \in Callers |-> {}]
    /\ MemcacheEnabled = TRUE
    /\ seeds = 0
    /\ casCurrent = [c \in Callers |-> FALSE]
    /\ lockEntity = NoEntity
    /\ lk = [c \in Callers |-> NoLock]
    /\ locked = {}
    /\ lockExpired = FALSE
    /\ txDepth = [c \in Callers |-> 0]
    /\ cbLog = [c \in Callers |-> <<>>]
    /\ cbErr = [c \in Callers |-> NoErr]
    /\ multiErr = [c \in Callers |-> <<>>]

\* ------------------------------------------------- the remote cache service
\* memcache.GetMulti: the items found, as a map; an error finds nothing
GetMulti(keys) ==
    IF svcUp THEN [k \in Range(keys) \cap DOMAIN cache |-> cache[k]] ELSE <<>>

\* the records of keys have been written or removed: the items that callers
\* of CAS read of them no longer carry the casID of what is stored
Stale(keys) ==
    [c \in Callers |-> casCurrent[c] /\ ~(pc[c] = "cas" /\ Keyify(op[c].key) \in keys)]

\* Codec.Set of one item
CacheSet(ch, key, item) == [k \in DOMAIN ch \cup {key} |-> IF k = key THEN item ELSE ch[k]]

\* a faulty variant: waitTime stays what it was
AfterFailureSameWait(l, d) ==
    [el |-> Min(l.el + d + l.wait, DeadlineMs), wait |-> l.wait]

\* one failed attempt of a retry loop: the attempt took d, then Sleep(waitTime)
\* and waitTime doubles; time is counted from the start of the loop
AfterFailure(l, d) ==
    [el |-> Min(l.el + d + l.wait, DeadlineMs), wait |-> l.wait * 2]
BeforeDeadline(el) == el < DeadlineMs

\* ------------------------------------------------------------ memoizeMulti
IsNil(v) == v = Nil
IsNilFlagged(item) == (item.flags % (2 * nilCache)) \div nilCache = 1

\* what a caller's generator returns for key k when the datastore holds st:
\* GetById's generator, the test's fgen (nil, nil), the finder's generator,
\* and a datastore error from any of them
GenOutcomes(k, st) ==
    (IF k.kind = "ById"
     THEN IF st = NoEntity
          THEN {[res |-> Nil, err |-> ErrCacheMiss], [res |-> Nil, err |-> NoErr]}
          ELSE {[res |-> st, err |-> NoErr]}
     ELSE {[res |-> IF st = k.name THEN "list1" ELSE "list0", err |-> NoErr]})
    \cup {[res |-> Nil, err |-> GenErr]}

\* a faulty variant: the lookup is skipped and every key is a miss
memGetMultiSkipped(c, keyHashes) ==
    [i \in DOMAIN keyHashes |-> [item |-> NoItem, err |-> ErrCacheMiss]]

\* memGetMulti: per index the item found and the lookup error
memGetMulti(c, keyHashes) ==
    IF ~MemcacheEnabled \/ inTx[c]
    THEN [i \in DOMAIN keyHashes |-> [item |-> NoItem, err |-> ErrCacheMiss]]
    ELSE LET itemHash == GetMulti(keyHashes)
         IN  [i \in DOMAIN keyHashes |->
                IF keyHashes[i] \in DOMAIN itemHash
                THEN [item |-> itemHash[keyHashes[i]],
                      err |-> IF itemHash[keyHashes[i]].val = Foreign THEN DecodeErr ELSE NoErr]
                ELSE [item |-> NoItem, err |-> ErrCacheMiss]]

\* the slot of index i after the lookup: a miss starts a goroutine
LookupErr(got) ==
    IF got.err = ErrCacheMiss THEN ErrCacheMiss
    ELSE IF got.err # NoErr THEN got.err
    ELSE IF IsNilFlagged(got.item) THEN ErrCacheMiss ELSE NoErr
\* a faulty variant: a record that does not decode is sent to the generator
StartsTaskOnError(got) == got.err \notin {NoErr}
\* a faulty variant: a nil-flagged hit is sent to the generator as well
StartsTaskOnNilFlag(got) == got.err = ErrCacheMiss \/ IsNilFlagged(got.item)
StartsTask(got) == got.err = ErrCacheMiss

\* a faulty variant: the ErrCacheMiss of a generator is taken for a hard error
ClassifyMissAsHard(o) ==
    IF o.err # NoErr
    THEN [hard |-> TRUE, found |-> TRUE, err |-> o.err]
    ELSE [hard |-> FALSE, found |-> ~IsNil(o.res),
          err |-> IF IsNil(o.res) THEN ErrCacheMiss ELSE NoErr]

\* a faulty variant: a hard error goes on to the write-back like a miss
ClassifyHardAsMiss(o) ==
    IF o.err # NoErr
    THEN [hard |-> FALSE, found |-> FALSE, err |-> o.err]
    ELSE [hard |-> FALSE, found |-> ~IsNil(o.res),
          err |-> IF IsNil(o.res) THEN ErrCacheMiss ELSE NoErr]

\* the classification of a generator result: hard error, found, not found
Classify(o) ==
    IF o.err # NoErr
    THEN IF o.err # ErrCacheMiss
         THEN [hard |-> TRUE, found |-> TRUE, err |-> o.err]
         ELSE [hard |-> FALSE, found |-> FALSE, err |-> ErrCacheMiss]
    ELSE [hard |-> FALSE, found |-> ~IsNil(o.res),
          err |-> IF IsNil(o.res) THEN ErrCacheMiss ELSE NoErr]

\* a faulty variant: the write-back happens inside a transaction as well
ShouldStoreInTransaction(inTransaction, found, cacheNil) == found \/ cacheNil

\* a faulty variant: a result is written back whatever cacheNil
ShouldStoreNil(inTransaction, found, cacheNil) == ~inTransaction

\* a faulty variant: only found values are written back
ShouldStoreFound(inTransaction, found, cacheNil) == ~inTransaction /\ found
ShouldStore(inTransaction, found, cacheNil) == ~inTransaction /\ (found \/ cacheNil)

\* the item a goroutine writes back
WriteBackItem(found, res, destValue) ==
    [val |-> IF found THEN res ELSE destValue,
     flags |-> IF found THEN regular ELSE nilCache,
     present |-> TRUE]

\* the call starts: key hashes, the batched lookup, one goroutine per miss
BeginMemoize(c, keys, cacheNil, back) ==
    LET keyHashes == [i \in DOMAIN keys |-> Keyify(keys[i])]
        got == memGetMulti(c, keyHashes)
    IN  /\ mKeys' = [mKeys EXCEPT ![c] = keys]
        /\ mNil' = [mNil EXCEPT ![c] = cacheNil]
        /\ mDest' = [mDest EXCEPT ![c] = [i \in DOMAIN keys |->
                        IF got[i].item.present /\ got[i].err = NoErr
                        THEN got[i].item.val ELSE ZeroVal]]
        /\ mErr' = [mErr EXCEPT ![c] = [i \in DOMAIN keys |-> LookupErr(got[i])]]
        /\ mTask' = [mTask EXCEPT ![c] = [i \in DOMAIN keys |->
                        [NoTask EXCEPT !.pc = IF StartsTask(got[i]) THEN "gen" ELSE "none",
                                       !.hit = got[i].item.present,
                                       !.sent = IF StartsTask(got[i]) THEN 0 ELSE 1]]]
        /\ mGen' = [mGen EXCEPT ![c] = [i \in DOMAIN keys |-> 0]]
        /\ pc' = [pc EXCEPT ![c] = "memo"]
        /\ ret' = [ret EXCEPT ![c] = back]

MemoizeMulti(c, keys, cacheNil) ==
    /\ pc[c] = "idle"
    /\ BeginMemoize(c, keys, cacheNil, "idle")
    /\ UNCHANGED <<envVars, txVars, delVars, putVars, op, panics, MemcacheEnabled, seeds, casCurrent, mutexVars, cbVars>>

\* the goroutine of index i ends: the deferred errors[index] = err, and
\* ReflectCopy(result, destinationPointer) when copy
FinishTask(c, i, out, copy, err) ==
    /\ mTask' = [mTask EXCEPT ![c][i] = [NoTask EXCEPT !.pc = "done", !.hit = mTask[c][i].hit, !.out = out,
                                                       !.sent = mTask[c][i].sent + 1]]
    /\ mErr' = [mErr EXCEPT ![c][i] = err]
    /\ mDest' = [mDest EXCEPT ![c][i] = IF copy THEN out.res ELSE @]

\* the goroutine of index i runs its generator and classifies the result
RunGenerator(c, i) ==
    /\ pc[c] = "memo"
    /\ i \in DOMAIN mTask[c]
    /\ mTask[c][i].pc = "gen"
    /\ \E o \in GenOutcomes(mKeys[c][i], store) :
         LET cl == Classify(o)
         IN  IF cl.hard
             THEN FinishTask(c, i, o, FALSE, cl.err)
             ELSE IF ShouldStore(inTx[c], cl.found, mNil[c])
                  THEN /\ mTask' = [mTask EXCEPT ![c][i] =
                              [pc |-> "set", hit |-> mTask[c][i].hit, out |-> o, found |-> cl.found,
                               err |-> cl.err, el |-> 0, wait |-> InitialWaitMs,
                               sent |-> mTask[c][i].sent]]
                       /\ UNCHANGED <<mErr, mDest>>
                  ELSE FinishTask(c, i, o, cl.found, cl.err)
    /\ mGen' = [mGen EXCEPT ![c][i] = @ + 1]
    /\ UNCHANGED <<envVars, txVars, pc, ret, mKeys, mNil, delVars, putVars, op, panics, MemcacheEnabled, seeds, casCurrent, mutexVars, cbVars>>

\* one attempt of codecSetWithRetry for the write-back of index i
WriteBack(c, i) ==
    /\ pc[c] = "memo"
    /\ i \in DOMAIN mTask[c]
    /\ mTask[c][i].pc = "set"
    /\ LET t == mTask[c][i]
       IN  IF svcUp
           THEN /\ cache' = CacheSet(cache, Keyify(mKeys[c][i]),
                                     WriteBackItem(t.found, t.out.res, mDest[c][i]))
                /\ FinishTask(c, i, t.out, t.found, t.err)
           ELSE /\ UNCHANGED cache
                /\ \E d \in AttemptMs :
                     LET l == AfterFailure(t, d)
                     IN  IF BeforeDeadline(l.el)
                         THEN /\ mTask' = [mTask EXCEPT ![c][i] = [t EXCEPT !.el = l.el, !.wait = l.wait]]
                              /\ UNCHANGED <<mErr, mDest>>
                         ELSE FinishTask(c, i, t.out, FALSE, SetErr)
    /\ UNCHANGED <<store, svcUp, outages, tasks, txVars, pc, ret, mKeys, mNil, mGen, delVars, putVars, op, panics, MemcacheEnabled, seeds, mutexVars, cbVars>>
    /\ casCurrent' = Stale(IF svcUp THEN {Keyify(mKeys[c][i])} ELSE {})

\* the generator of index i panics: the deferred function stores err, which
\* is still nil, in the slot and sends the recovered panic on panicChan
PanicGenerator(c, i) ==
    /\ pc[c] = "memo"
    /\ i \in DOMAIN mTask[c]
    /\ mTask[c][i].pc = "gen"
    /\ mTask' = [mTask EXCEPT ![c][i] = [NoTask EXCEPT !.pc = "panicked", !.hit = mTask[c][i].hit,
                                                       !.sent = mTask[c][i].sent + 1]]
    /\ mErr' = [mErr EXCEPT ![c][i] = NoErr]
    /\ mGen' = [mGen EXCEPT ![c][i] = @ + 1]
    /\ UNCHANGED <<envVars, txVars, pc, ret, mKeys, mNil, mDest, delVars, putVars, op, panics, MemcacheEnabled, seeds, casCurrent, mutexVars, cbVars>>

\* the number of messages put on panicChan so far, which was made with
\* capacity len(items)
panicChan(c) ==
    Cardinality({m \in (DOMAIN mTask[c]) \X (1..2) : m[2] <= mTask[c][m[1]].sent})

\* a faulty variant: the coordinator receives one message
AllTasksDoneFirst(c) ==
    /\ pc[c] = "memo"
    /\ panicChan(c) >= 1

\* the coordinator has received len(items) messages from panicChan
AllTasksDone(c) ==
    /\ pc[c] = "memo"
    /\ panicChan(c) >= Len(mTask[c])

\* the non-nil values the coordinator received from panicChan, by index
Panicked(c) == {i \in DOMAIN mTask[c] : mTask[c][i].pc = "panicked"}

\* the call's locals go out of scope
ClearMemoize(c) ==
    /\ mKeys' = [mKeys EXCEPT ![c] = <<>>]
    /\ mNil' = [mNil EXCEPT ![c] = FALSE]
    /\ mDest' = [mDest EXCEPT ![c] = <<>>]
    /\ mErr' = [mErr EXCEPT ![c] = <<>>]
    /\ mTask' = [mTask EXCEPT ![c] = <<>>]
    /\ mGen' = [mGen EXCEPT ![c] = <<>>]

\* a faulty variant: the call returns without waiting for its goroutines
MemoizeReturnEarly(c) ==
    /\ pc[c] = "memo"
    /\ Panicked(c) = {}
    /\ ret[c] = "idle"
    /\ pc' = [pc EXCEPT ![c] = "idle"]
    /\ ClearMemoize(c)
    /\ UNCHANGED <<envVars, txVars, ret, delVars, putVars, op, panics, MemcacheEnabled, seeds, casCurrent, mutexVars, cbVars>>

\* memoizeMulti returns errors to a caller of Memoize or MemoizeMulti
MemoizeReturn(c) ==
    /\ AllTasksDone(c)
    /\ Panicked(c) = {}
    /\ ret[c] = "idle"
    /\ pc' = [pc EXCEPT ![c] = "idle"]
    /\ ClearMemoize(c)
    /\ UNCHANGED <<envVars, txVars, ret, delVars, putVars, op, panics, MemcacheEnabled, seeds, casCurrent, mutexVars, cbVars>>

\* a faulty variant: the call panics as soon as one goroutine has panicked
MemoizePanicAtOnce(c) ==
    /\ pc[c] = "memo"
    /\ Panicked(c) # {}
    /\ panics' = [panics EXCEPT ![c] = Panicked(c)]
    /\ pc' = [pc EXCEPT ![c] = "panic"]
    /\ ClearMemoize(c)
    /\ UNCHANGED <<envVars, txVars, ret, delVars, putVars, op, MemcacheEnabled, seeds, casCurrent, mutexVars, cbVars>>

\* memoizeMulti has collected a panic: panic(panics)
MemoizePanic(c) ==
    /\ AllTasksDone(c)
    /\ Panicked(c) # {}
    /\ panics' = [panics EXCEPT ![c] = Panicked(c)]
    /\ pc' = [pc EXCEPT ![c] = "panic"]
    /\ ClearMemoize(c)
    /\ UNCHANGED <<envVars, txVars, ret, delVars, putVars, op, MemcacheEnabled, seeds, casCurrent, mutexVars, cbVars>>

\* the panic has unwound the caller of memoizeMulti
PanicUnwind(c) ==
    /\ pc[c] = "panic"
    /\ pc' = [pc EXCEPT ![c] = "idle"]
    /\ ret' = [ret EXCEPT ![c] = "idle"]
    /\ panics' = [panics EXCEPT ![c] = {}]
    /\ UNCHANGED <<envVars, txVars, memoVars, delVars, putVars, op, MemcacheEnabled, seeds, casCurrent, mutexVars, cbVars>>

\* --------------------------------------------------- Del, delWithRetry, del
\* memcache.DeleteMulti on the service: the first request for a present key
\* deletes it, any other finds nothing; an outage fails the whole call.
\* nil when every key was deleted, else one error per key (nil for a deleted one).
DeleteMulti(keys) ==
    IF ~svcUp THEN [kind |-> "error", errs |-> <<>>]
    ELSE LET deleted(i) == /\ keys[i] \in DOMAIN cache
                           /\ \A j \in 1..(i - 1) : keys[j] # keys[i]
             errs == [i \in DOMAIN keys |-> IF deleted(i) THEN NoErr ELSE ErrCacheMiss]
         IN  IF \A i \in DOMAIN keys : errs[i] = NoErr
             THEN [kind |-> "nil", errs |-> <<>>]
             ELSE [kind |-> "multi", errs |-> errs]

CacheAfterDelete(keys) ==
    IF svcUp THEN [k \in DOMAIN cache \ Range(keys) |-> cache[k]] ELSE cache

\* a faulty variant: a reply that reports missing keys is an error
delErrorOnMiss(reply) ==
    IF reply.kind = "nil" THEN NoErr ELSE DelErr

\* what del makes of DeleteMulti's reply
delError(reply) ==
    IF reply.kind = "nil" THEN NoErr
    ELSE IF reply.kind = "multi"
         THEN LET actualErrors == Cardinality({i \in DOMAIN reply.errs : reply.errs[i] # ErrCacheMiss})
              IN  IF actualErrors > 0 THEN DelErr ELSE NoErr
         ELSE DelErr

\* del's first loop: keys[index] = Keyify(key), written into the slice it was given
delKeys(keys) == [i \in DOMAIN keys |-> Keyify(keys[i])]

\* delWithRetry starts its loop
BeginDelWithRetry(c, keys, back) ==
    /\ dKeys' = [dKeys EXCEPT ![c] = keys]
    /\ dOrig' = [dOrig EXCEPT ![c] = keys]
    /\ dLoop' = [dLoop EXCEPT ![c] = [el |-> 0, wait |-> InitialWaitMs, n |-> 0]]
    /\ dErr' = [dErr EXCEPT ![c] = NoErr]
    /\ pc' = [pc EXCEPT ![c] = "del"]
    /\ ret' = [ret EXCEPT ![c] = back]

\* an entry of context.afterTransaction, by what it does when called: the
\* closure of Del runs delWithRetry on keys; a function f given by the program
\* records its call and returns an error or nil
Closure(f, keys, fails) == [f |-> f, keys |-> keys, fails |-> fails]
DelClosure(keys) == Closure("delWithRetry", keys, FALSE)

\* a faulty variant: the deletion starts at once, in a transaction or not
BeginDelAtOnce(c, keys, back) ==
    /\ BeginDelWithRetry(c, keys, back)
    /\ UNCHANGED afterTx

\* Del: nothing happens when the package is switched off; inside a
\* transaction the deletion is registered with AfterTransaction
BeginDel(c, keys, back) ==
    IF ~MemcacheEnabled \/ inTx[c]
    THEN /\ afterTx' = [afterTx EXCEPT ![c] = IF MemcacheEnabled THEN Append(@, DelClosure(keys)) ELSE @]
         /\ dOrig' = [dOrig EXCEPT ![c] = keys]
         /\ pc' = [pc EXCEPT ![c] = "delret"]
         /\ ret' = [ret EXCEPT ![c] = back]
         /\ UNCHANGED <<dKeys, dLoop, dErr>>
    ELSE /\ BeginDelWithRetry(c, keys, back)
         /\ UNCHANGED afterTx

Del(c, keys) ==
    /\ pc[c] = "idle"
    /\ Len(tasks) < MaxTasks
    /\ Len(afterTx[c]) < MaxTasks
    /\ BeginDel(c, keys, "idle")
    /\ UNCHANGED <<envVars, inTx, txPut, memoVars, putVars, tries, op, panics, MemcacheEnabled, seeds, casCurrent, mutexVars, cbVars>>

\* one pass of delWithRetry's loop: del, and on an error Sleep and double
DelAttempt(c) ==
    /\ pc[c] = "del"
    /\ LET sent == delKeys(dKeys[c])
           err == delError(DeleteMulti(sent))
       IN  /\ cache' = CacheAfterDelete(sent)
           /\ dKeys' = [dKeys EXCEPT ![c] = sent]
           /\ dErr' = [dErr EXCEPT ![c] = err]
           /\ IF err = NoErr
              THEN /\ pc' = [pc EXCEPT ![c] = "delret"]
                   /\ dLoop' = [dLoop EXCEPT ![c].n = @ + 1]
              ELSE \E d \in AttemptMs :
                     LET l == AfterFailure(dLoop[c], d)
                     IN  /\ dLoop' = [dLoop EXCEPT ![c] = [el |-> l.el, wait |-> l.wait, n |-> @.n + 1]]
                         /\ pc' = [pc EXCEPT ![c] = IF BeforeDeadline(l.el) THEN "del" ELSE "enqueue"]
    /\ UNCHANGED <<store, svcUp, outages, tasks, txVars, ret, memoVars, dOrig, putVars, op, panics, MemcacheEnabled, seeds, mutexVars, cbVars>>
    /\ casCurrent' = Stale(IF svcUp THEN Range(delKeys(dKeys[c])) ELSE {})

\* a faulty variant: an enqueued task leaves del's error as the result
DelEnqueueKeepsErr(c) ==
    /\ pc[c] = "enqueue"
    /\ \/ /\ tasks' = Append(tasks, [keys |-> dKeys[c], orig |-> dOrig[c]])
          /\ UNCHANGED dErr
       \/ /\ dErr' = [dErr EXCEPT ![c] = AddErr]
          /\ UNCHANGED tasks
    /\ pc' = [pc EXCEPT ![c] = "delret"]
    /\ UNCHANGED <<cache, store, svcUp, outages, txVars, ret, memoVars, dKeys, dOrig, dLoop, putVars, op, panics, MemcacheEnabled, seeds, casCurrent, mutexVars, cbVars>>

\* delWithRetry gives up: deleteFunc.Task(keys) and taskqueue.Add, which may fail
DelEnqueue(c) ==
    /\ pc[c] = "enqueue"
    /\ \/ /\ tasks' = Append(tasks, [keys |-> dKeys[c], orig |-> dOrig[c]])
          /\ dErr' = [dErr EXCEPT ![c] = NoErr]
       \/ /\ dErr' = [dErr EXCEPT ![c] = AddErr]
          /\ UNCHANGED tasks
    /\ pc' = [pc EXCEPT ![c] = "delret"]
    /\ UNCHANGED <<cache, store, svcUp, outages, txVars, ret, memoVars, dKeys, dOrig, dLoop, putVars, op, panics, MemcacheEnabled, seeds, casCurrent, mutexVars, cbVars>>

\* Del returns err to its caller
DelReturn(c) ==
    /\ pc[c] = "delret"
    /\ pc' = [pc EXCEPT ![c] = ret[c]]
    /\ dKeys' = [dKeys EXCEPT ![c] = <<>>]
    /\ dOrig' = [dOrig EXCEPT ![c] = <<>>]
    /\ dLoop' = [dLoop EXCEPT ![c] = NoLoop]
    /\ dErr' = [dErr EXCEPT ![c] = NoErr]
    /\ multiErr' = [multiErr EXCEPT ![c] =
                        IF ret[c] = "aftertx" /\ dErr[c] # NoErr THEN Append(@, dErr[c]) ELSE @]
    /\ UNCHANGED <<envVars, txVars, ret, memoVars, putVars, op, panics, MemcacheEnabled, seeds, casCurrent, mutexVars,
                   txDepth, cbLog, cbErr>>

\* the task queue runs delayedDelete; a task that returns an error stays queued
delayedDelete ==
    /\ tasks # <<>>
    /\ LET sent == delKeys(Head(tasks).keys)
           err == delError(DeleteMulti(sent))
       IN  /\ cache' = CacheAfterDelete(sent)
           /\ tasks' = IF err = NoErr THEN Tail(tasks) ELSE tasks
    /\ UNCHANGED <<store, svcUp, outages, txVars, pc, ret, memoVars, delVars, putVars, op, panics, MemcacheEnabled, seeds, mutexVars, cbVars>>
    /\ casCurrent' = Stale(IF svcUp THEN Range(delKeys(Head(tasks).keys)) ELSE {})

\* ------------------------------------------------------------------ gae.Put
\* Put loads the old version with GetById, which memoizes under keyById
Put(c, name) ==
    /\ pc[c] = "idle"
    /\ Len(tasks) < MaxTasks
    /\ Len(afterTx[c]) < MaxTasks
    /\ pName' = [pName EXCEPT ![c] = name]
    /\ pKeys' = [pKeys EXCEPT ![c] = <<>>]
    /\ BeginMemoize(c, <<keyById>>, TRUE, "put")
    /\ UNCHANGED <<envVars, txVars, delVars, op, panics, MemcacheEnabled, seeds, casCurrent, mutexVars, cbVars>>

\* GetById has returned: the old version's keys, then datastore.Put
PutStore(c) ==
    /\ AllTasksDone(c)
    /\ Panicked(c) = {}
    /\ ret[c] = "put"
    /\ IF mErr[c][1] \in {NoErr, ErrCacheMiss}
       THEN /\ pKeys' = [pKeys EXCEPT ![c] =
                    IF mErr[c][1] = NoErr THEN MemcacheKeys(mDest[c][1], <<>>) ELSE <<>>]
            /\ IF inTx[c]
               THEN /\ txPut' = [txPut EXCEPT ![c] = pName[c]]
                    /\ UNCHANGED store
               ELSE /\ store' = pName[c]
                    /\ UNCHANGED txPut
            /\ pc' = [pc EXCEPT ![c] = "putdel"]
            /\ UNCHANGED pName
       ELSE /\ pc' = [pc EXCEPT ![c] = "idle"]
            /\ pName' = [pName EXCEPT ![c] = Nil]
            /\ UNCHANGED <<store, txPut, pKeys>>
    /\ ClearMemoize(c)
    /\ UNCHANGED <<cache, svcUp, outages, tasks, inTx, afterTx, ret, delVars, tries, op, panics, MemcacheEnabled, seeds, casCurrent, mutexVars, cbVars>>

\* the new version's keys are appended and memcache.Del gets them all
PutDel(c) ==
    /\ pc[c] = "putdel"
    /\ BeginDel(c, MemcacheKeys(pName[c], pKeys[c]), "idle")
    /\ pName' = [pName EXCEPT ![c] = Nil]
    /\ pKeys' = [pKeys EXCEPT ![c] = <<>>]
    /\ UNCHANGED <<envVars, inTx, txPut, memoVars, tries, op, panics, MemcacheEnabled, seeds, casCurrent, mutexVars, cbVars>>

\* --------------------------------------------------------------- Transaction
\* Transaction runs f with a context that is inTransaction
BeginTransaction(c) ==
    /\ pc[c] = "idle"
    /\ ~inTx[c]
    /\ inTx' = [inTx EXCEPT ![c] = TRUE]
    /\ UNCHANGED <<envVars, afterTx, txPut, pc, ret, memoVars, delVars, putVars, tries, op, panics, MemcacheEnabled, seeds, casCurrent, mutexVars, cbVars>>

\* f returned nil and the datastore committed: the callbacks run with self
Commit(c) ==
    /\ pc[c] = "idle"
    /\ inTx[c]
    /\ txDepth[c] = 0
    /\ store' = IF txPut[c] # Nil THEN txPut[c] ELSE store
    /\ inTx' = [inTx EXCEPT ![c] = FALSE]
    /\ txPut' = [txPut EXCEPT ![c] = Nil]
    /\ pc' = [pc EXCEPT ![c] = "aftertx"]
    /\ multiErr' = [multiErr EXCEPT ![c] = <<>>]
    /\ UNCHANGED <<cache, svcUp, outages, tasks, afterTx, ret, memoVars, delVars, putVars, tries, op, panics, MemcacheEnabled, seeds, casCurrent, mutexVars,
                   txDepth, cbLog, cbErr>>

\* f returned an error: nothing is written and no callback runs
Rollback(c) ==
    /\ pc[c] = "idle"
    /\ inTx[c]
    /\ txDepth[c] = 0
    /\ inTx' = [inTx EXCEPT ![c] = FALSE]
    /\ txPut' = [txPut EXCEPT ![c] = Nil]
    /\ afterTx' = [afterTx EXCEPT ![c] = <<>>]
    /\ tries' = [tries EXCEPT ![c] = 0]
    /\ UNCHANGED <<envVars, pc, ret, memoVars, delVars, putVars, op, panics, MemcacheEnabled, seeds, casCurrent, mutexVars, cbVars>>

\* a faulty variant: the callbacks of the abandoned attempt are kept
RetryTransactionKeeps(c) ==
    /\ pc[c] = "idle"
    /\ inTx[c]
    /\ txDepth[c] = 0
    /\ tries[c] < MaxTries
    /\ tries' = [tries EXCEPT ![c] = @ + 1]
    /\ txPut' = [txPut EXCEPT ![c] = Nil]
    /\ UNCHANGED <<envVars, inTx, afterTx, pc, ret, memoVars, delVars, putVars, op, panics, MemcacheEnabled, seeds, casCurrent, mutexVars, cbVars>>

\* the attempt ended in a concurrency error: the body runs again with a new
\* copy of self, so what the abandoned attempt registered and wrote is gone
RetryTransaction(c) ==
    /\ pc[c] = "idle"
    /\ inTx[c]
    /\ txDepth[c] = 0
    /\ tries[c] < MaxTries
    /\ tries' = [tries EXCEPT ![c] = @ + 1]
    /\ txPut' = [txPut EXCEPT ![c] = Nil]
    /\ afterTx' = [afterTx EXCEPT ![c] = <<>>]
    /\ UNCHANGED <<envVars, inTx, pc, ret, memoVars, delVars, putVars, op, panics, MemcacheEnabled, seeds, casCurrent, mutexVars, cbVars>>

\* a function the program gave to AfterTransaction is called with the
\* context ctxInTx: it records its name and ctx.InTransaction()
Called(log, f, ctxInTx) == Append(log, [f |-> f, inTx |-> ctxInTx])

\* a faulty variant: the loop ends at the first callback that returns an error
CallbacksLeftUntilError(cbs, failed) == IF failed THEN <<>> ELSE Tail(cbs)

\* the loop over newContext.afterTransaction goes on whatever cb returned
CallbacksLeft(cbs, failed) == Tail(cbs)

\* the next registered callback, called with self: delWithRetry on the keys
\* Del was given, or a function of the program, whose error is appended to
\* multiErr; after the last one Transaction returns
AfterTransaction(c) ==
    /\ pc[c] = "aftertx"
    /\ IF afterTx[c] = <<>>
       THEN /\ pc' = [pc EXCEPT ![c] = "idle"]
            /\ tries' = [tries EXCEPT ![c] = 0]
            /\ UNCHANGED <<afterTx, ret, delVars, cbLog, multiErr>>
       ELSE LET cb == Head(afterTx[c])
            IN  IF cb.f = "delWithRetry"
                THEN /\ BeginDelWithRetry(c, cb.keys, "aftertx")
                     /\ afterTx' = [afterTx EXCEPT ![c] = Tail(@)]
                     /\ UNCHANGED <<tries, cbLog, multiErr>>
                ELSE /\ cbLog' = [cbLog EXCEPT ![c] = Called(@, cb.f, inTx[c])]
                     /\ multiErr' = [multiErr EXCEPT ![c] = IF cb.fails THEN Append(@, cb.f) ELSE @]
                     /\ afterTx' = [afterTx EXCEPT ![c] = CallbacksLeft(@, cb.fails)]
                     /\ UNCHANGED <<tries, pc, ret, delVars>>
    /\ UNCHANGED <<envVars, inTx, txPut, memoVars, putVars, op, panics, MemcacheEnabled, seeds, casCurrent, mutexVars,
                   txDepth, cbErr>>

\* Transaction on a context that is inTransaction runs f with that context
NestedTransaction(c) ==
    /\ pc[c] = "idle"
    /\ inTx[c]
    /\ txDepth[c] < MaxDepth
    /\ txDepth' = [txDepth EXCEPT ![c] = @ + 1]
    /\ UNCHANGED <<envVars, txVars, pc, ret, memoVars, delVars, putVars, op, panics, MemcacheEnabled, seeds, casCurrent, mutexVars,
                   cbLog, cbErr, multiErr>>

\* the f of such a call returns: CallTransactionFunction returns its error
NestedReturn(c) ==
    /\ pc[c] = "idle"
    /\ inTx[c]
    /\ txDepth[c] > 0
    /\ txDepth' = [txDepth EXCEPT ![c] = @ - 1]
    /\ UNCHANGED <<envVars, txVars, pc, ret, memoVars, delVars, putVars, op, panics, MemcacheEnabled, seeds, casCurrent, mutexVars,
                   cbLog, cbErr, multiErr>>

\* DefaultContext.AfterTransaction(f): inside a transaction f is appended to
\* afterTransaction, else it is called at once with self and its error returned
CallAfterTransaction(c, f, fails) ==
    /\ pc[c] = "idle"
    /\ Len(afterTx[c]) + Len(cbLog[c]) < MaxCallbacks
    /\ IF inTx[c]
       THEN /\ afterTx' = [afterTx EXCEPT ![c] = Append(@, Closure(f, <<>>, fails))]
            /\ cbErr' = [cbErr EXCEPT ![c] = NoErr]
            /\ UNCHANGED cbLog
       ELSE /\ cbLog' = [cbLog EXCEPT ![c] = Called(@, f, inTx[c])]
            /\ cbErr' = [cbErr EXCEPT ![c] = IF fails THEN f ELSE NoErr]
            /\ UNCHANGED afterTx
    /\ UNCHANGED <<envVars, inTx, txPut, tries, pc, ret, memoVars, delVars, putVars, op, panics, MemcacheEnabled, seeds, casCurrent, mutexVars,
                   txDepth, multiErr>>

\* ------------------------------------------------------------------ Memoize2
\* Memoize2 reads the record of super: its value is the seed; a miss or any
\* other error of memcache.Get leads to a new seed
Memoize2(c, super, key) ==
    /\ pc[c] = "idle"
    /\ LET superH == Keyify(super)
       IN  IF svcUp /\ superH \in DOMAIN cache
           THEN /\ BeginMemoize(c, <<childKey(key, cache[superH].val)>>, TRUE, "idle")
                /\ UNCHANGED op
           ELSE /\ seeds < MaxSeeds
                /\ op' = [op EXCEPT ![c] = [NoOp EXCEPT !.name = "Memoize2", !.key = super,
                                                        !.sub = key, !.remote = {"Get"}]]
                /\ pc' = [pc EXCEPT ![c] = "seed"]
                /\ UNCHANGED <<ret, memoVars>>
    /\ UNCHANGED <<envVars, txVars, delVars, putVars, panics, MemcacheEnabled, seeds, casCurrent, mutexVars, cbVars>>

\* the seed is drawn and stored with one memcache.Set; successive values of
\* rand.Int63 are taken to differ. Memoize goes on with the key made of it
MintSeed(c) ==
    /\ pc[c] = "seed"
    /\ seeds' = seeds + 1
    /\ IF svcUp
       THEN /\ cache' = CacheSet(cache, Keyify(op[c].key),
                                 [val |-> seeds + 1, flags |-> regular, present |-> TRUE])
            /\ BeginMemoize(c, <<childKey(op[c].sub, seeds + 1)>>, TRUE, "idle")
            /\ op' = [op EXCEPT ![c] = NoOp]
       ELSE /\ op' = [op EXCEPT ![c].err = SetErr, ![c].remote = {"Get", "Set"}]
            /\ pc' = [pc EXCEPT ![c] = "idle"]
            /\ UNCHANGED <<cache, ret, memoVars>>
    /\ UNCHANGED <<store, svcUp, outages, tasks, txVars, delVars, putVars, panics, MemcacheEnabled, mutexVars, cbVars>>
    /\ casCurrent' = Stale(IF svcUp THEN {Keyify(op[c].key)} ELSE {})

\* ------------------------------------------------------- Get, Put (memcache)
\* Put of a value of another type under a key that Memoize uses, in the case
\* that the first Codec.Set of its loop succeeds: the record no longer decodes
\* into the destinations of Memoize
PutForeign(c, key) ==
    /\ pc[c] = "idle"
    /\ MemcacheEnabled /\ ~inTx[c]
    /\ svcUp
    /\ cache' = CacheSet(cache, Keyify(key), [val |-> Foreign, flags |-> regular, present |-> TRUE])
    /\ casCurrent' = Stale({Keyify(key)})
    /\ UNCHANGED <<store, svcUp, outages, tasks, txVars, pc, ret, memoVars, delVars, putVars, op, panics, MemcacheEnabled, seeds, mutexVars, cbVars>>

\* Codec.Get on the service: the record found is decoded into out, which is
\* written only then
CodecGet(key, out) ==
    LET k == Keyify(key)
        r == [NoOp EXCEPT !.name = "Get", !.key = key, !.arg = out, !.val = out, !.remote = {"Get"}]
    IN  IF ~svcUp THEN [r EXCEPT !.err = GetErr]
        ELSE IF k \notin DOMAIN cache THEN r
        ELSE IF ~Decodable(cache[k].val, out) THEN [r EXCEPT !.err = DecodeErr]
        ELSE [r EXCEPT !.val = Unmarshal(cache[k].val, out), !.found = TRUE]

\* a faulty variant: the service is asked inside a transaction too
GetResultAlways(c, key, out) == CodecGet(key, out)

\* Get: nothing is asked of the service inside a transaction; a miss is no
\* error; any other error of Codec.Get is logged and returned
GetResult(c, key, out) ==
    IF ~MemcacheEnabled \/ inTx[c]
    THEN [NoOp EXCEPT !.name = "Get", !.key = key, !.arg = out, !.val = out]
    ELSE CodecGet(key, out)

Get(c, key, out) ==
    /\ pc[c] = "idle"
    /\ op' = [op EXCEPT ![c] = GetResult(c, key, out)]
    /\ UNCHANGED <<envVars, txVars, pc, ret, memoVars, delVars, putVars, panics, MemcacheEnabled, seeds, casCurrent, mutexVars, cbVars>>

\* Put and PutUntil: putUntil starts codecSetWithRetry on the hashed key
putUntil(c, key, val) ==
    /\ pc[c] = "idle"
    /\ op' = [op EXCEPT ![c] =
          [NoOp EXCEPT !.name = "Put", !.key = key, !.arg = val, !.val = val, !.wait = InitialWaitMs]]
    /\ pc' = [pc EXCEPT ![c] = IF MemcacheEnabled THEN "cset" ELSE "idle"]
    /\ UNCHANGED <<envVars, txVars, ret, memoVars, delVars, putVars, panics, MemcacheEnabled, seeds, casCurrent, mutexVars, cbVars>>

\* one pass of codecSetWithRetry's loop: Codec.Set, and on an error Sleep and double
codecSetWithRetry(c) ==
    /\ pc[c] = "cset"
    /\ IF svcUp
       THEN /\ cache' = CacheSet(cache, Keyify(op[c].key), [val |-> Marshal(op[c].val), flags |-> regular, present |-> TRUE])
            /\ op' = [op EXCEPT ![c].remote = {"Set"}, ![c].err = NoErr]
            /\ pc' = [pc EXCEPT ![c] = "idle"]
       ELSE \E d \in AttemptMs :
              LET l == AfterFailure(op[c], d)
              IN  /\ op' = [op EXCEPT ![c].remote = {"Set"}, ![c].el = l.el, ![c].wait = l.wait,
                                      ![c].err = IF BeforeDeadline(l.el) THEN NoErr ELSE SetErr]
                  /\ pc' = [pc EXCEPT ![c] = IF BeforeDeadline(l.el) THEN "cset" ELSE "idle"]
                  /\ UNCHANGED cache
    /\ UNCHANGED <<store, svcUp, outages, tasks, txVars, ret, memoVars, delVars, putVars, panics, MemcacheEnabled, seeds, mutexVars, cbVars>>
    /\ casCurrent' = Stale(IF svcUp THEN {Keyify(op[c].key)} ELSE {})

\* ---------------------------------------------------------------------- CAS
\* CAS reads the item of the hashed key with memcache.Get: a miss is no success
\* and no error; expected is encoded and compared with the payload, and a
\* difference is no success and no error; else the item gets the encoding of
\* replacement (arg is expected, val is replacement, found is success)
\* a faulty variant: the payload matches when it is of the type of expected
CasMatchesType(item, expected) == item.val.kind = expected.kind

\* bytes.Compare of the encoding of expected and the payload of the item
CasMatches(item, expected) == Marshal(expected) = item.val

CAS(c, key, expected, replacement) ==
    /\ pc[c] = "idle"
    /\ LET k == Keyify(key)
           r == [NoOp EXCEPT !.name = "CAS", !.key = key, !.arg = expected, !.val = replacement,
                             !.remote = {"Get"}]
       IN  IF ~svcUp
           THEN /\ op' = [op EXCEPT ![c] = [r EXCEPT !.err = CasGetErr]]
                /\ UNCHANGED <<pc, casCurrent>>
           ELSE IF k \notin DOMAIN cache \/ ~CasMatches(cache[k], expected)
           THEN /\ op' = [op EXCEPT ![c] = r]
                /\ UNCHANGED <<pc, casCurrent>>
           ELSE /\ op' = [op EXCEPT ![c] = [r EXCEPT !.flags = cache[k].flags]]
                /\ pc' = [pc EXCEPT ![c] = "cas"]
                /\ casCurrent' = [casCurrent EXCEPT ![c] = TRUE]
    /\ UNCHANGED <<envVars, txVars, ret, memoVars, delVars, putVars, panics, MemcacheEnabled, seeds, mutexVars, cbVars>>

\* a faulty variant: the service swaps whatever the casID of the item
CompareAndSwapBlind(c) == svcUp /\ Keyify(op[c].key) \in DOMAIN cache

\* memcache.CompareAndSwap stores the item when the record still has the casID
\* that was read
CompareAndSwap(c) == svcUp /\ Keyify(op[c].key) \in DOMAIN cache /\ casCurrent[c]

\* the end of CAS: ErrCASConflict is no success and no error; any other error
\* of CompareAndSwap (the service failed, the record is gone) is returned
CASSwap(c) ==
    /\ pc[c] = "cas"
    /\ LET k == Keyify(op[c].key)
       IN  IF CompareAndSwap(c)
           THEN /\ cache' = CacheSet(cache, k, [val |-> Marshal(op[c].val), flags |-> op[c].flags,
                                                 present |-> TRUE])
                /\ op' = [op EXCEPT ![c].found = TRUE, ![c].remote = {"Get", "CompareAndSwap"}]
                /\ casCurrent' = [Stale({k}) EXCEPT ![c] = FALSE]
           ELSE /\ op' = [op EXCEPT ![c].remote = {"Get", "CompareAndSwap"},
                                    ![c].err = IF svcUp /\ k \in DOMAIN cache THEN NoErr ELSE CasErr]
                /\ casCurrent' = [casCurrent EXCEPT ![c] = FALSE]
                /\ UNCHANGED cache
    /\ pc' = [pc EXCEPT ![c] = "idle"]
    /\ UNCHANGED <<store, svcUp, outages, tasks, txVars, ret, memoVars, delVars, putVars, panics, MemcacheEnabled, seeds, mutexVars, cbVars>>

\* -------------------------------------------------------------------- Mutex
\* Lock: the inner loop increments the counter of the name until Incr
\* returns 1; then a transaction reads the entity and, when there is none,
\* stores it and sets success; Lock repeats both until success.
Lock(c) ==
    /\ pc[c] = "idle" /\ c \notin locked
    /\ pc' = [pc EXCEPT ![c] = "spin"]
    /\ lk' = [lk EXCEPT ![c] = NoLock]
    /\ UNCHANGED <<envVars, txVars, ret, memoVars, delVars, putVars, op, panics, MemcacheEnabled, seeds, casCurrent,
                   lockEntity, locked, lockExpired, cbVars>>

\* a faulty variant: the inner loop ends on any value of the counter
FirstWaiterAny(waiting) == waiting >= 1

\* the end of the inner loop
FirstWaiter(waiting) == waiting = 1

\* memcache.Increment with initial value 0: the new value of the counter
Increment(k) == IF k \in DOMAIN cache THEN cache[k].val + 1 ELSE 1

\* one pass of the inner loop: Incr and Sleep; an error of Incr ends Lock
LockIncr(c) ==
    /\ pc[c] = "spin"
    /\ LET k == Keyify(lockKey)
       IN  IF svcUp
           THEN /\ cache' = CacheSet(cache, k, [val |-> Min(Increment(k), MaxWaiting),
                                               flags |-> regular, present |-> TRUE])
                /\ casCurrent' = Stale({k})
                /\ pc' = [pc EXCEPT ![c] = IF FirstWaiter(Increment(k)) THEN "lockf" ELSE "spin"]
                /\ UNCHANGED lk
           ELSE /\ lk' = [lk EXCEPT ![c].err = IncrErr]
                /\ pc' = [pc EXCEPT ![c] = "idle"]
                /\ UNCHANGED <<cache, casCurrent>>
    /\ UNCHANGED <<store, svcUp, outages, tasks, txVars, ret, memoVars, delVars, putVars, op, panics, MemcacheEnabled,
                   seeds, lockEntity, locked, lockExpired, cbVars>>

\* the entity can be taken: there is none, or its LockedAt is older than timeout
Takeable(entity, expired) == entity = NoEntity \/ expired

\* the function of the transaction: datastore.Get of the entity and, with
\* ErrNoSuchEntity or a LockedAt older than timeout, datastore.Put and
\* success = true
LockTransaction(c) ==
    /\ pc[c] = "lockf"
    /\ lk' = [lk EXCEPT ![c].read = lockEntity,
                        ![c].put = Takeable(lockEntity, lockExpired),
                        ![c].success = @ \/ Takeable(lockEntity, lockExpired)]
    /\ pc' = [pc EXCEPT ![c] = "lockc"]
    /\ UNCHANGED <<envVars, txVars, ret, memoVars, delVars, putVars, op, panics, MemcacheEnabled, seeds, casCurrent,
                   lockEntity, locked, lockExpired, cbVars>>

\* the commit: when the entity was written since the transaction read it the
\* function runs again, while there are tries left; else the put takes
\* effect, and Lock returns nil with success or goes back to the inner loop
LockCommit(c) ==
    /\ pc[c] = "lockc"
    /\ IF lockEntity # lk[c].read
       THEN /\ IF tries[c] < MaxTries
               THEN /\ tries' = [tries EXCEPT ![c] = @ + 1]
                    /\ pc' = [pc EXCEPT ![c] = "lockf"]
                    /\ UNCHANGED lk
               ELSE /\ tries' = [tries EXCEPT ![c] = 0]
                    /\ pc' = [pc EXCEPT ![c] = "idle"]
                    /\ lk' = [lk EXCEPT ![c].err = ErrConcurrentTransaction]
            /\ UNCHANGED <<lockEntity, locked, lockExpired>>
       ELSE /\ lockEntity' = IF lk[c].put THEN c ELSE lockEntity
            /\ lockExpired' = IF lk[c].put THEN FALSE ELSE lockExpired
            /\ tries' = [tries EXCEPT ![c] = 0]
            /\ locked' = IF lk[c].success THEN locked \cup {c} ELSE locked
            /\ pc' = [pc EXCEPT ![c] = IF lk[c].success THEN "idle" ELSE "spin"]
            /\ UNCHANGED lk
    /\ UNCHANGED <<envVars, inTx, afterTx, txPut, ret, memoVars, delVars, putVars, op, panics, MemcacheEnabled, seeds,
                   casCurrent, cbVars>>

\* Unlock: datastore.Delete of the entity
Unlock(c) ==
    /\ pc[c] = "idle" /\ c \in locked
    /\ Len(tasks) < MaxTasks
    /\ lockEntity' = NoEntity
    /\ lockExpired' = FALSE
    /\ locked' = locked \ {c}
    /\ lk' = [lk EXCEPT ![c] = NoLock]
    /\ pc' = [pc EXCEPT ![c] = "unlock"]
    /\ UNCHANGED <<envVars, txVars, ret, memoVars, delVars, putVars, op, panics, MemcacheEnabled, seeds, casCurrent, cbVars>>

\* time passes: the LockedAt of the stored entity becomes older than timeout
TimeoutPasses ==
    /\ lockEntity # NoEntity
    /\ ~lockExpired
    /\ lockExpired' = TRUE
    /\ UNCHANGED <<envVars, txVars, pc, ret, memoVars, delVars, putVars, op, panics, MemcacheEnabled, seeds, casCurrent,
                   lockEntity, lk, locked, cbVars>>

\* Unlock: memcache.Del of the counter
UnlockDel(c) ==
    /\ pc[c] = "unlock"
    /\ BeginDel(c, <<lockKey>>, "idle")
    /\ UNCHANGED <<envVars, inTx, txPut, memoVars, putVars, tries, op, panics, MemcacheEnabled, seeds, casCurrent,
                   mutexVars, cbVars>>

\* ------------------------------------------------------------ environment
\* the program sets the package's switch, between the operations of its callers
SetMemcacheEnabled(b) ==
    /\ MemcacheEnabled # b
    /\ \A c \in Callers : pc[c] = "idle"
    /\ tasks = <<>>
    /\ MemcacheEnabled' = b
    /\ UNCHANGED <<envVars, txVars, pc, ret, memoVars, delVars, putVars, op, panics, seeds, casCurrent, mutexVars, cbVars>>

ServiceDown ==
    /\ svcUp /\ outages < MaxOutages
    /\ svcUp' = FALSE
    /\ outages' = outages + 1
    /\ UNCHANGED <<cache, store, tasks, txVars, pc, ret, memoVars, delVars, putVars, op, panics, MemcacheEnabled, seeds, casCurrent, mutexVars, cbVars>>

ServiceUp ==
    /\ ~svcUp
    /\ svcUp' = TRUE
    /\ UNCHANGED <<cache, store, outages, tasks, txVars, pc, ret, memoVars, delVars, putVars, op, panics, MemcacheEnabled, seeds, casCurrent, mutexVars, cbVars>>

\* the cache service drops a record (eviction, expiry)
Evict(k) ==
    /\ k \in DOMAIN cache
    /\ cache' = [x \in DOMAIN cache \ {k} |-> cache[x]]
    /\ UNCHANGED <<store, svcUp, outages, tasks, txVars, pc, ret, memoVars, delVars, putVars, op, panics, MemcacheEnabled, seeds, mutexVars, cbVars>>
    /\ casCurrent' = Stale({k})

\* ---------------------------------------------------------- specifications
\* the keys of the batches a caller memoizes
MemoKeys == {keyById, keyForValues("Parent", "n1")}

\* the keys a caller reads with Get and writes with Put and CAS
putKey(name) == [kind |-> "Put", name |-> name, depth |-> 0]
PutKeys == {putKey("s"), putKey("t")}

\* Memoized reads: one caller, batches, in and out of a transaction, with
\* outages of the cache service and eviction.
Next ==
    \/ \E keys \in Batches(MemoKeys), cacheNil \in BOOLEAN : MemoizeMulti("c1", keys, cacheNil)
    \/ \E i \in 1..MaxBatch : RunGenerator("c1", i)
    \/ \E i \in 1..MaxBatch : WriteBack("c1", i)
    \/ MemoizeReturn("c1")
    \/ BeginTransaction("c1")
    \/ Rollback("c1")
    \/ ServiceDown
    \/ ServiceUp
    \/ \E k \in DOMAIN cache : Evict(k)

Spec == Init /\ [][Next]_vars

\* Invalidation: one caller memoizes single keys and deletes batches, with
\* outages and the fallback queue.
NextDel ==
    \/ \E k \in MemoKeys : MemoizeMulti("c1", <<k>>, TRUE)
    \/ RunGenerator("c1", 1)
    \/ WriteBack("c1", 1)
    \/ MemoizeReturn("c1")
    \/ \E keys \in Batches(MemoKeys) : Del("c1", keys)
    \/ DelAttempt("c1")
    \/ DelEnqueue("c1")
    \/ DelReturn("c1")
    \/ delayedDelete
    \/ ServiceDown
    \/ ServiceUp
    \/ \E k \in DOMAIN cache : Evict(k)

SpecDel == Init /\ [][NextDel]_vars

\* SpecDel with the scheduling the runtime gives: a running Del goes on, the
\* task queue runs its tasks, an outage ends
FairSpecDel ==
    /\ SpecDel
    /\ WF_vars(DelAttempt("c1"))
    /\ WF_vars(DelEnqueue("c1"))
    /\ WF_vars(DelReturn("c1"))
    /\ WF_vars(delayedDelete)
    /\ WF_vars(ServiceUp)

\* Datastore writes: one caller writes with gae.Put and reads with GetById and
\* the ancestor finder, in and out of transactions; the cache service is up.
NextPut ==
    \/ \E k \in ReadKeys : MemoizeMulti("c1", <<k>>, TRUE)
    \/ RunGenerator("c1", 1)
    \/ WriteBack("c1", 1)
    \/ MemoizeReturn("c1")
    \/ \E name \in Names : Put("c1", name)
    \/ PutStore("c1")
    \/ PutDel("c1")
    \/ DelAttempt("c1")
    \/ DelEnqueue("c1")
    \/ DelReturn("c1")
    \/ delayedDelete
    \/ BeginTransaction("c1")
    \/ Commit("c1")
    \/ Rollback("c1")
    \/ AfterTransaction("c1")
    \/ \E k \in DOMAIN cache : Evict(k)

SpecPut == Init /\ [][NextPut]_vars

\* the functions the program gives to AfterTransaction
Funcs == {"f1", "f2"}

\* Callbacks: one caller registers functions and deletions in and out of
\* transactions, nested or not, that commit, fail or run their body again.
NextCallbacks ==
    \/ \E f \in Funcs, fails \in BOOLEAN : CallAfterTransaction("c1", f, fails)
    \/ Del("c1", <<keyById>>)
    \/ DelAttempt("c1")
    \/ DelEnqueue("c1")
    \/ DelReturn("c1")
    \/ delayedDelete
    \/ BeginTransaction("c1")
    \/ NestedTransaction("c1")
    \/ NestedReturn("c1")
    \/ Commit("c1")
    \/ Rollback("c1")
    \/ RetryTransaction("c1")
    \/ AfterTransaction("c1")
    \/ ServiceDown
    \/ ServiceUp

SpecCallbacks == Init /\ [][NextCallbacks]_vars

\* Transactions: one caller memoizes and deletes in and out of transactions
\* that commit, fail or run their body again, with outages of the cache service.
NextTx ==
    \/ MemoizeMulti("c1", <<keyById>>, TRUE)
    \/ RunGenerator("c1", 1)
    \/ WriteBack("c1", 1)
    \/ MemoizeReturn("c1")
    \/ \E keys \in Batches(MemoKeys) : Del("c1", keys)
    \/ DelAttempt("c1")
    \/ DelEnqueue("c1")
    \/ DelReturn("c1")
    \/ delayedDelete
    \/ BeginTransaction("c1")
    \/ Commit("c1")
    \/ Rollback("c1")
    \/ RetryTransaction("c1")
    \/ AfterTransaction("c1")
    \/ ServiceDown
    \/ ServiceUp

SpecTx == Init /\ [][NextTx]_vars

\* Single-key accessors: one caller reads with Get and writes with Put, in and
\* out of transactions, with outages and eviction.
NextOps ==
    \/ \E k \in PutKeys, out \in StringValues : Get("c1", k, out)
    \/ \E k \in PutKeys, v \in StringValues : putUntil("c1", k, v)
    \/ codecSetWithRetry("c1")
    \/ BeginTransaction("c1")
    \/ Commit("c1")
    \/ Rollback("c1")
    \/ AfterTransaction("c1")
    \/ ServiceDown
    \/ ServiceUp
    \/ \E k \in DOMAIN cache : Evict(k)

SpecOps == Init /\ [][NextOps]_vars

\* The codec: one caller writes values of both types with Put and reads them
\* with Get into destinations of any content, with outages and eviction.
NextCodec ==
    \/ \E k \in PutKeys, out \in GobValues : Get("c1", k, out)
    \/ \E k \in PutKeys, v \in GobValues : putUntil("c1", k, v)
    \/ codecSetWithRetry("c1")
    \/ ServiceDown
    \/ ServiceUp
    \/ \E k \in DOMAIN cache : Evict(k)

SpecCodec == Init /\ [][NextCodec]_vars

\* the values of the callers of CAS: x, y and z of the struct type
CasValues == {v \in StructValues : v # ZeroOf(v)}

\* Compare-and-swap: two callers write the record of one key with Put and
\* CAS and read it with Get, with outages and eviction.
NextCas ==
    \/ \E c \in Callers, e \in CasValues, r \in CasValues : CAS(c, putKey("s"), e, r)
    \/ \E c \in Callers : CASSwap(c)
    \/ \E v \in CasValues : putUntil("c1", putKey("s"), v)
    \/ codecSetWithRetry("c1")
    \/ \E out \in CasValues : Get("c1", putKey("s"), out)
    \/ ServiceDown
    \/ ServiceUp
    \/ \E k \in DOMAIN cache : Evict(k)

SpecCas == Init /\ [][NextCas]_vars

\* The Mutex: two callers lock and unlock one name, with outages of the cache
\* service and the fallback queue; the counter is not evicted.
NextMutex ==
    \/ \E c \in Callers : Lock(c)
    \/ \E c \in Callers : LockIncr(c)
    \/ \E c \in Callers : LockTransaction(c)
    \/ \E c \in Callers : LockCommit(c)
    \/ \E c \in Callers : Unlock(c)
    \/ \E c \in Callers : UnlockDel(c)
    \/ \E c \in Callers : DelAttempt(c)
    \/ \E c \in Callers : DelEnqueue(c)
    \/ \E c \in Callers : DelReturn(c)
    \/ delayedDelete
    \/ ServiceDown
    \/ ServiceUp

SpecMutex == Init /\ [][NextMutex]_vars

\* Takeover: two callers lock one name and none unlocks, while time passes,
\* with outages of the cache service; the counter is not evicted.
NextTakeover ==
    \/ \E c \in Callers : Lock(c)
    \/ \E c \in Callers : LockIncr(c)
    \/ \E c \in Callers : LockTransaction(c)
    \/ \E c \in Callers : LockCommit(c)
    \/ TimeoutPasses
    \/ ServiceDown
    \/ ServiceUp

SpecTakeover == Init /\ [][NextTakeover]_vars

\* SpecTakeover with the scheduling the runtime gives: every caller goes on
\* and time passes
FairSpecTakeover ==
    /\ SpecTakeover
    /\ \A c \in Callers : WF_vars(LockIncr(c))
    /\ \A c \in Callers : WF_vars(LockTransaction(c))
    /\ \A c \in Callers : WF_vars(LockCommit(c))
    /\ WF_vars(TimeoutPasses)

\* The retry loops: one caller memoizes, writes and deletes single keys, with
\* outages and the fallback queue.
NextRetry ==
    \/ MemoizeMulti("c1", <<keyById>>, TRUE)
    \/ RunGenerator("c1", 1)
    \/ WriteBack("c1", 1)
    \/ MemoizeReturn("c1")
    \/ \E v \in StringValues : putUntil("c1", putKey("s"), v)
    \/ codecSetWithRetry("c1")
    \/ Del("c1", <<keyById>>)
    \/ DelAttempt("c1")
    \/ DelEnqueue("c1")
    \/ DelReturn("c1")
    \/ delayedDelete
    \/ ServiceDown
    \/ ServiceUp

SpecRetry == Init /\ [][NextRetry]_vars

\* Panics: one caller memoizes batches whose generators may panic, with outages.
NextPanic ==
    \/ \E keys \in Batches(MemoKeys), cacheNil \in BOOLEAN : MemoizeMulti("c1", keys, cacheNil)
    \/ \E i \in 1..MaxBatch : RunGenerator("c1", i)
    \/ \E i \in 1..MaxBatch : PanicGenerator("c1", i)
    \/ \E i \in 1..MaxBatch : WriteBack("c1", i)
    \/ MemoizeReturn("c1")
    \/ MemoizePanic("c1")
    \/ PanicUnwind("c1")
    \/ ServiceDown
    \/ ServiceUp

SpecPanic == Init /\ [][NextPanic]_vars

\* SpecPanic with the scheduling the runtime gives: every goroutine and the
\* coordinator go on
FairSpecPanic ==
    /\ SpecPanic
    /\ \A i \in 1..MaxBatch : WF_vars(RunGenerator("c1", i) \/ PanicGenerator("c1", i))
    /\ \A i \in 1..MaxBatch : WF_vars(WriteBack("c1", i))
    /\ WF_vars(MemoizeReturn("c1"))
    /\ WF_vars(MemoizePanic("c1"))

\* Fan-in: one caller memoizes batches whose generators may panic, while
\* another stores values of another type under the same keys, with outages.
NextFanIn ==
    \/ \E keys \in Batches(MemoKeys), cacheNil \in BOOLEAN : MemoizeMulti("c1", keys, cacheNil)
    \/ \E i \in 1..MaxBatch : RunGenerator("c1", i)
    \/ \E i \in 1..MaxBatch : PanicGenerator("c1", i)
    \/ \E i \in 1..MaxBatch : WriteBack("c1", i)
    \/ MemoizeReturn("c1")
    \/ MemoizePanic("c1")
    \/ PanicUnwind("c1")
    \/ \E k \in MemoKeys : PutForeign("c2", k)
    \/ ServiceDown
    \/ ServiceUp

SpecFanIn == Init /\ [][NextFanIn]_vars

\* SpecFanIn with the scheduling the runtime gives: every goroutine and the
\* coordinator go on
FairSpecFanIn ==
    /\ SpecFanIn
    /\ \A i \in 1..MaxBatch : WF_vars(RunGenerator("c1", i) \/ PanicGenerator("c1", i))
    /\ \A i \in 1..MaxBatch : WF_vars(WriteBack("c1", i))
    /\ WF_vars(MemoizeReturn("c1"))
    /\ WF_vars(MemoizePanic("c1"))
    /\ WF_vars(PanicUnwind("c1"))

\* The switch: one caller reads, writes, memoizes and deletes single keys
\* with the package switched on and off; the cache service is up.
NextSwitch ==
    \/ \E b \in BOOLEAN : SetMemcacheEnabled(b)
    \/ \E k \in MemoKeys : MemoizeMulti("c1", <<k>>, TRUE)
    \/ RunGenerator("c1", 1)
    \/ WriteBack("c1", 1)
    \/ MemoizeReturn("c1")
    \/ \E k \in PutKeys, out \in StringValues : Get("c1", k, out)
    \/ \E k \in PutKeys, v \in StringValues : putUntil("c1", k, v)
    \/ codecSetWithRetry("c1")
    \/ \E k \in MemoKeys : Del("c1", <<k>>)
    \/ DelAttempt("c1")
    \/ DelReturn("c1")
    \/ \E k \in DOMAIN cache : Evict(k)

SpecSwitch == Init /\ [][NextSwitch]_vars

\* Composite keys: one caller memoizes sub-keys under a super key with
\* Memoize2 and deletes the super key, with outages.
NextSeed ==
    \/ \E k \in SubKeys : Memoize2("c1", superKey, k)
    \/ MintSeed("c1")
    \/ RunGenerator("c1", 1)
    \/ WriteBack("c1", 1)
    \/ MemoizeReturn("c1")
    \/ Del("c1", <<superKey>>)
    \/ DelAttempt("c1")
    \/ DelEnqueue("c1")
    \/ DelReturn("c1")
    \/ delayedDelete
    \/ ServiceDown
    \/ ServiceUp

SpecSeed == Init /\ [][NextSeed]_vars

\* Concurrent first access: two callers memoize sub-keys under one super key
\* with Memoize2, with outages; the super record is not deleted nor evicted.
NextSeedRace ==
    \/ \E c \in Callers, k \in SubKeys : Memoize2(c, superKey, k)
    \/ \E c \in Callers : MintSeed(c)
    \/ \E c \in Callers : RunGenerator(c, 1)
    \/ \E c \in Callers : WriteBack(c, 1)
    \/ \E c \in Callers : MemoizeReturn(c)
    \/ ServiceDown
    \/ ServiceUp

SpecSeedRace == Init /\ [][NextSeedRace]_vars

\* Concurrent callers: each reads the entity by id and writes it.
NextRace ==
    \/ \E c \in Callers : MemoizeMulti(c, <<keyById>>, TRUE)
    \/ \E c \in Callers : RunGenerator(c, 1)
    \/ \E c \in Callers : WriteBack(c, 1)
    \/ \E c \in Callers : MemoizeReturn(c)
    \/ \E c \in Callers, name \in Names : Put(c, name)
    \/ \E c \in Callers : PutStore(c)
    \/ \E c \in Callers : PutDel(c)
    \/ \E c \in Callers : DelAttempt(c)
    \/ \E c \in Callers : DelEnqueue(c)
    \/ \E c \in Callers : DelReturn(c)
    \/ delayedDelete

SpecRace == Init /\ [][NextRace]_vars

\* ------------------------------------------------------------------ claims
\* the generator outcome of a finished goroutine, by the three cases
OutFound(o) == o.err = NoErr /\ o.res # Nil
OutNotFound(o) == o.err = ErrCacheMiss \/ (o.err = NoErr /\ o.res = Nil)
OutHard(o) == o.err \notin {NoErr, ErrCacheMiss}
\* the goroutine of index i ends in this step
Finishes(c, i) ==
    /\ i \in DOMAIN mTask[c]
    /\ mTask[c][i].pc \in {"gen", "set"}
    /\ i \in DOMAIN mTask'[c]
    /\ mTask'[c][i].pc = "done"
\* this step stores item under the key hash of index i
Wrote(c, i, item) ==
    /\ mTask[c][i].pc = "set"
    /\ Keyify(mKeys[c][i]) \in DOMAIN cache'
    /\ cache'[Keyify(mKeys[c][i])] = item
PlainItem(v) == [val |-> v, flags |-> regular, present |-> TRUE]
NilItem(v) == [val |-> v, flags |-> nilCache, present |-> TRUE]

\* C2: within one MemoizeMulti call the generator of index i is invoked exactly
\* once when the batched lookup missed for key i and never when it hit (a plain
\* record or a NIL_MARKER record).
C2_GeneratorOncePerMiss ==
    \A c \in Callers : \A i \in DOMAIN mTask[c] :
        /\ mGen[c][i] <= 1
        /\ mTask[c][i].hit => mGen[c][i] = 0
        /\ (AllTasksDone(c) /\ ~mTask[c][i].hit) => mGen[c][i] = 1

\* C2 witness: a two-key call about to return, index 1 a hit and index 2 a miss
C2_Witness ==
    /\ AllTasksDone("c1")
    /\ Len(mKeys["c1"]) = 2
    /\ mTask["c1"][1].hit /\ ~mTask["c1"][2].hit
    /\ mGen["c1"] = <<0, 1>>

MarkerAt(ch, k) == Keyify(k) \in DOMAIN ch /\ IsNilFlagged(ch[Keyify(k)])
\* a memoizeMulti call of c begins in this step
Starts(c) == pc[c] = "idle" /\ pc'[c] = "memo"
\* this step is a del that sends the key string kh to DeleteMulti
DelSends(kh) ==
    \/ \E c \in Callers : /\ pc[c] = "del"
                          /\ dLoop'[c].n = dLoop[c].n + 1
                          /\ kh \in Range(delKeys(dKeys[c]))
    \/ /\ tasks # <<>>
       /\ UNCHANGED <<pc, memoVars, delVars>>
       /\ kh \in Range(delKeys(Head(tasks).keys))
\* this step is an eviction by the service
Evicts == cache' # cache /\ UNCHANGED <<tasks, pc, memoVars, delVars>>
\* the marker of k is stored when the generator reports not-found
MarkerStored(c, i) ==
    /\ MarkerAt(cache', mKeys[c][i])
    /\ Wrote(c, i, NilItem(ZeroVal))
\* a call that begins finds the marker of key i: sentinel, no goroutine
MarkerServed(c, i) ==
    /\ mErr'[c][i] = ErrCacheMiss
    /\ mTask'[c][i].pc = "none"
    /\ mGen'[c][i] = 0
    /\ cache' = cache
\* the record of k is as before, or a delete of k or an eviction removed it
StaysUntilRemoved(k) ==
    (/\ Keyify(k) \in DOMAIN cache
     /\ ~(Keyify(k) \in DOMAIN cache' /\ cache'[Keyify(k)] = cache[Keyify(k)]))
        => /\ Keyify(k) \notin DOMAIN cache'
           /\ DelSends(Keyify(k)) \/ Evicts
\* this step is the write-back of a call that missed k
WriteBackOf(k) ==
    \E c \in Callers : \E i \in DOMAIN mTask[c] :
        /\ mKeys[c][i] = k
        /\ mTask[c][i].pc = "set" /\ mTask'[c][i].pc = "done"
        /\ Wrote(c, i, WriteBackItem(mTask[c][i].found, mTask[c][i].out.res, mDest[c][i]))
\* a key that was found by the lookup never gets a goroutine
HitsStayIdle ==
    \A c \in Callers : \A i \in DOMAIN mTask[c] :
        mTask[c][i].hit => mTask[c][i].pc = "none"

C8_Original ==
    /\ \A c \in Callers :
         (pc[c] \in {"del", "enqueue", "delret"} /\ dLoop[c].n >= 1)
             => dKeys[c] = [i \in DOMAIN dOrig[c] |-> Keyify(dOrig[c][i])]
    /\ \A t \in DOMAIN tasks :
         delKeys(tasks[t].keys) = [i \in DOMAIN tasks[t].orig |-> Keyify(tasks[t].orig[i])]

\* C9 as stated: a Del(k) outside a transaction that returns nil leads to the
\* record under Keyify(k) being removed, when outages end and queued tasks run.
C9_Original ==
    \A k \in MemoKeys :
        (pc["c1"] = "delret" /\ dErr["c1"] = NoErr /\ k \in Range(dOrig["c1"]))
            ~> (Keyify(k) \notin DOMAIN cache)

\* C10 as stated: while the service answers, the first attempt on any batch of
\* present and absent keys succeeds: del returns nil, no retry, no task.
C10_Original ==
    [][\A c \in Callers :
          (pc[c] = "del" /\ dLoop[c].n = 0 /\ svcUp /\ dLoop'[c].n = 1)
              => (dErr'[c] = NoErr /\ pc'[c] = "delret")]_vars

\* ---- claims about invalidation by gae.Put, under SpecPut and SpecRace
\* the records a write-back can store for k from the present datastore state
FreshItems(k) ==
    {WriteBackItem(Classify(o).found, o.res, ZeroVal) :
        o \in {x \in GenOutcomes(k, store) : ~Classify(x).hard}}
\* a record stored for k is what a generator would produce now
Fresh(k) == Keyify(k) \in DOMAIN cache => cache[Keyify(k)] \in FreshItems(k)
\* the Del of a gae.Put (direct, or the last one run after the commit) is
\* about to return
PutReturning(c) ==
    /\ pc[c] = "delret" /\ ~inTx[c]
    /\ dOrig[c] # <<>> /\ afterTx[c] = <<>>

\* C5: with one caller and a cache service that answers, when gae.Put (outside
\* a transaction, or after its transaction committed) returns, no cache key
\* derived from the old or the new version holds a record, so the next read
\* of such a key runs its generator; and whenever no operation is running
\* every stored record is the post-write state.
C5_SequentialInvalidation ==
    /\ (\A c \in Callers : pc[c] = "idle") => \A k \in ReadKeys : Fresh(k)
    /\ \A c \in Callers : PutReturning(c) =>
          /\ \A i \in DOMAIN dOrig[c] : Keyify(dOrig[c][i]) \notin DOMAIN cache
          /\ {keyById} \cup Range(cacheKeys(store)) \subseteq Range(dOrig[c])
          /\ \A k \in ReadKeys : Fresh(k)

\* C5 witness: a Put of n2 over the cached version n1 is about to return; the
\* keys of both versions were given to Del and hold no record
C5_Witness ==
    /\ PutReturning("c1")
    /\ store = "n2"
    /\ keyForValues("Parent", "n1") \in Range(dOrig["c1"])
    /\ keyForValues("Parent", "n2") \in Range(dOrig["c1"])
    /\ \A i \in DOMAIN dOrig["c1"] : Keyify(dOrig["c1"][i]) \notin DOMAIN cache

PlainAt(ch, k) == Keyify(k) \in DOMAIN ch /\ ~IsNilFlagged(ch[Keyify(k)])

\* a call that begins finds the plain record of key i: value, nil, no goroutine
PlainServed(c, i) ==
    /\ mDest'[c][i] = cache[Keyify(mKeys'[c][i])].val
    /\ mErr'[c][i] = NoErr
    /\ mTask'[c][i].pc = "none"
    /\ mGen'[c][i] = 0
    /\ cache' = cache
\* a found value is stored as a plain record when its call reports nil
PlainStored ==
    \A c \in Callers : \A i \in DOMAIN mTask[c] :
        (/\ Finishes(c, i) /\ OutFound(mTask'[c][i].out) /\ ~inTx[c]
         /\ mErr'[c][i] = NoErr)
            => Wrote(c, i, PlainItem(mTask'[c][i].out.res))

WritesInvalidated ==
    /\ tasks = <<>>
    /\ \A c \in Callers : pc[c] \notin {"putdel", "del", "enqueue", "delret"}

\* C6 as stated: once the datastore write for k and the Del(k) after it have
\* completed, a Memoize(k) that starts afterwards returns the post-write value,
\* whatever calls that started before the write do.
C6_Original ==
    [][\A c \in Callers :
          (Starts(c) /\ ret'[c] = "idle" /\ WritesInvalidated /\ mTask'[c][1].pc = "none")
              => IF mErr'[c][1] = NoErr
                 THEN mDest'[c][1] = store
                 ELSE store = NoEntity]_vars

\* C7 as stated: concurrent calls of different callers for the same key that
\* is not in the cache invoke the generator at most once in total.
C7_Original ==
    \A c \in Callers : \A d \in Callers \ {c} :
        (/\ pc[c] = "memo" /\ pc[d] = "memo"
         /\ mKeys[c] = mKeys[d]
         /\ ~mTask[c][1].hit /\ ~mTask[d][1].hit)
            => mGen[c][1] + mGen[d][1] <= 1

\* ---------------------------------------------------------------- C11
\* this step is a pass of c's retry loop
DelTries(c) == pc[c] = "del" /\ dLoop'[c].n = dLoop[c].n + 1
\* this step is c's attempt to enqueue the fallback task
Enqueues(c) == pc[c] = "enqueue" /\ pc'[c] = "delret"

\* C11: Del outside a transaction returns a non-nil error only if enqueuing the
\* fallback task failed: it returns nil as soon as del returns nil, and nil
\* when the task was added to the queue; del's own error never reaches the caller.
C11_EnqueueOnlyFailure ==
    [][\A c \in Callers :
        /\ (DelTries(c) /\ delError(DeleteMulti(delKeys(dKeys[c]))) = NoErr)
              => (pc'[c] = "delret" /\ dErr'[c] = NoErr /\ tasks' = tasks)
        /\ (DelTries(c) /\ pc'[c] = "delret") => dErr'[c] = NoErr
        /\ (Enqueues(c) /\ tasks' # tasks) => dErr'[c] = NoErr
        /\ (Enqueues(c) /\ tasks' = tasks) => dErr'[c] = AddErr
        /\ (pc[c] # "delret" /\ pc'[c] = "delret" /\ dErr'[c] # NoErr)
              => (Enqueues(c) /\ tasks' = tasks)
      ]_vars

\* Del is about to return the error of taskqueue.Add after failed attempts
C11_Witness ==
    \E c \in Callers :
        pc[c] = "delret" /\ ~inTx[c] /\ dLoop[c].n >= 1 /\ dErr[c] = AddErr /\ tasks = <<>>

\* ---------------------------------------------------------------- C12
\* this step is the first pass of a Del of the single key k, the service is up
FirstDelOf(c, k) ==
    /\ DelTries(c)
    /\ dLoop[c].n = 0
    /\ ~inTx[c]
    /\ dOrig[c] = <<k>>
    /\ svcUp

\* C12: Del is idempotent. With no failure and outside a transaction Del(k)
\* returns nil after its first pass and leaves no record under k, so that a
\* second Del(k) finds none; Del(k) for a key with no record (deleted before
\* or never stored) returns nil too and leaves the cache unchanged.
C12_DelIdempotent ==
    [][\A c \in Callers : \A k \in LogicalKeys :
        FirstDelOf(c, k) =>
            /\ pc'[c] = "delret" /\ dErr'[c] = NoErr /\ tasks' = tasks
            /\ Keyify(k) \notin DOMAIN cache'
            /\ (Keyify(k) \notin DOMAIN cache => cache' = cache)
      ]_vars

\* Del of a single key is about to return nil after one pass, no record is
\* left under the key while the record of another key is still stored
C12_Witness ==
    \E c \in Callers : \E k \in LogicalKeys :
        /\ pc[c] = "delret" /\ ~inTx[c] /\ dOrig[c] = <<k>>
        /\ dLoop[c].n = 1 /\ dErr[c] = NoErr
        /\ Keyify(k) \notin DOMAIN cache
        /\ cache # <<>>

\* ---------------------------------------------------------------- C13
\* this step is a Del call of c inside a transaction
DelInTx(c) == pc[c] = "idle" /\ pc'[c] = "delret" /\ inTx[c]
\* this step is the task queue running a task
TaskRuns == tasks # <<>> /\ UNCHANGED <<pc, delVars, txVars>>

\* C13: Del inside a transaction sends no delete and enqueues no task: it
\* appends the deletion to the callbacks of AfterTransaction and returns nil.
\* While the transaction runs the caller makes no pass of the retry loop and
\* no enqueue, and its steps leave the cache as it is; a registered deletion
\* starts only in the callback phase, which only a commit enters.
C13_DelDeferredToCommit ==
    /\ [][\A c \in Callers :
            /\ DelInTx(c) =>
                  /\ cache' = cache /\ tasks' = tasks
                  /\ dErr'[c] = NoErr /\ dLoop'[c] = dLoop[c]
                  /\ afterTx'[c] = Append(afterTx[c], DelClosure(dOrig'[c]))
            /\ (inTx[c] /\ inTx'[c] /\ cache' # cache) => TaskRuns
            /\ (pc[c] # "aftertx" /\ pc'[c] = "aftertx" /\ ret[c] # "aftertx")
                  => (inTx[c] /\ ~inTx'[c] /\ (txPut[c] # Nil => store' = txPut[c]))
            /\ (pc[c] = "aftertx" /\ pc'[c] = "del")
                  => (/\ ~inTx[c] /\ afterTx[c] # <<>>
                      /\ dOrig'[c] = Head(afterTx[c]).keys
                      /\ afterTx'[c] = Tail(afterTx[c]))
       ]_vars
    /\ [](\A c \in Callers : inTx[c] => pc[c] \notin {"del", "enqueue", "aftertx"})

\* after a commit the deletion registered in the transaction has made its
\* pass and is about to return nil to Transaction
C13_Witness ==
    \E c \in Callers :
        /\ pc[c] = "delret" /\ ret[c] = "aftertx" /\ ~inTx[c]
        /\ dLoop[c].n = 1 /\ dErr[c] = NoErr

\* ---------------------------------------------------------------- C14
\* this step ends c's transaction without a commit
EndsUncommitted(c) == inTx[c] /\ ~inTx'[c] /\ pc'[c] # "aftertx"
\* this step abandons an attempt of c's transaction and runs its body again
Retries(c) == inTx[c] /\ inTx'[c] /\ tries'[c] = tries[c] + 1
\* c is running the callbacks of a committed transaction
InCallbacks(c) == pc[c] = "aftertx" \/ (ret[c] = "aftertx" /\ pc[c] \in {"del", "enqueue", "delret"})

\* C14: a transaction that does not commit executes none of the deletions
\* registered in it: its end drops them all and touches neither the cache nor
\* the queue, and outside a transaction registered deletions exist only in
\* the callback phase of a commit. An attempt that is abandoned for a retry
\* drops its registrations, so that the registrations a commit finds are those
\* of the committing attempt.
C14_UncommittedNeverDeletes ==
    /\ [][\A c \in Callers :
            /\ EndsUncommitted(c) =>
                  (afterTx'[c] = <<>> /\ cache' = cache /\ tasks' = tasks /\ store' = store)
            /\ Retries(c) =>
                  (afterTx'[c] = <<>> /\ txPut'[c] = Nil /\ cache' = cache /\ tasks' = tasks)
            /\ (InCallbacks(c)' /\ ~InCallbacks(c)) => (inTx[c] /\ afterTx'[c] = afterTx[c])
       ]_vars
    /\ [](\A c \in Callers : (~inTx[c] /\ afterTx[c] # <<>>) => InCallbacks(c))
    /\ [](\A c \in Callers : InCallbacks(c) => ~inTx[c])

\* the body ran twice and the commit runs a deletion of the committing attempt
C14_Witness ==
    \E c \in Callers :
        /\ tries[c] = 1 /\ ~inTx[c]
        /\ pc[c] = "delret" /\ ret[c] = "aftertx" /\ dErr[c] = NoErr

\* ---------------------------------------------------------------- C15
\* this step is a Get call of c
Gets(c) == pc[c] = "idle" /\ op'[c] # op[c] /\ op'[c].name = "Get"

\* C15: Get inside a transaction returns found = false and err = nil, leaves
\* the output value as it was and makes no remote call, whatever the cache
\* holds for the key and whether the service is up or not.
C15_GetInTransaction ==
    [][\A c \in Callers :
        (Gets(c) /\ inTx[c]) =>
            /\ ~op'[c].found /\ op'[c].err = NoErr
            /\ op'[c].val = op'[c].arg
            /\ op'[c].remote = {}
            /\ cache' = cache
      ]_vars

\* Get in a transaction has reported a miss for a key whose record is stored
C15_Witness ==
    \E c \in Callers :
        /\ inTx[c] /\ pc[c] = "idle" /\ svcUp
        /\ op[c].name = "Get" /\ ~op[c].found /\ op[c].err = NoErr /\ op[c].remote = {}
        /\ Keyify(op[c].key) \in DOMAIN cache

\* ---------------------------------------------------------------- C16
\* the error slot and the destination the outcome o of a generator stands for
SlotOf(o) == IF OutFound(o) THEN NoErr ELSE IF OutNotFound(o) THEN ErrCacheMiss ELSE o.err
DestOf(o) == IF OutFound(o) THEN o.res ELSE ZeroVal

\* C16: MemoizeMulti inside a transaction looks nothing up (every key is a
\* miss whatever the cache holds), runs the generator of every key once, writes
\* nothing to the cache, and fills each slot and destination from the
\* generator's outcome: value and nil when found, ErrCacheMiss when not found.
\* Outside a transaction a key that missed gets the same slot and destination
\* whenever its write-back did not fail.
C16_MemoizeInTransaction ==
    /\ [][\A c \in Callers :
            /\ (Starts(c) /\ inTx[c]) =>
                  /\ cache' = cache
                  /\ \A i \in DOMAIN mTask'[c] :
                        /\ mTask'[c][i].pc = "gen" /\ ~mTask'[c][i].hit
                        /\ mErr'[c][i] = ErrCacheMiss /\ mDest'[c][i] = ZeroVal
            /\ (inTx[c] /\ mTask'[c] # mTask[c]) => cache' = cache
            /\ \A i \in DOMAIN mTask[c] :
                  /\ (Finishes(c, i) /\ inTx[c]) =>
                        /\ mTask[c][i].pc = "gen" /\ mGen'[c][i] = 1
                        /\ mErr'[c][i] = SlotOf(mTask'[c][i].out)
                        /\ mDest'[c][i] = DestOf(mTask'[c][i].out)
                  /\ (Finishes(c, i) /\ ~inTx[c] /\ mErr'[c][i] # SetErr) =>
                        /\ mErr'[c][i] = SlotOf(mTask'[c][i].out)
                        /\ mDest'[c][i] = DestOf(mTask'[c][i].out)
       ]_vars
    /\ [](\A c \in Callers : (inTx[c] /\ AllTasksDone(c)) =>
            \A i \in DOMAIN mTask[c] : mTask[c][i].pc = "done" /\ mGen[c][i] = 1)

\* a call inside a transaction is about to return a generated value for a
\* key whose record is stored, and the key it reported not found has no record
C16_Witness ==
    \E c \in Callers :
        /\ inTx[c] /\ AllTasksDone(c) /\ svcUp /\ Len(mKeys[c]) = 2
        /\ mErr[c][1] = NoErr /\ mDest[c][1] # ZeroVal /\ mGen[c][1] = 1
        /\ Keyify(mKeys[c][1]) \in DOMAIN cache
        /\ mErr[c][2] = ErrCacheMiss
        /\ Keyify(mKeys[c][2]) \notin DOMAIN cache

\* ---------------------------------------------------------------- C18
\* C18 as stated: for a key that missed and whose generator returned a
\* non-nil value without error, the error slot is nil and the destination
\* holds the generated value, also when the write-back failed on every attempt.
C18_Original ==
    [][\A c \in Callers : \A i \in DOMAIN mTask[c] :
        (Finishes(c, i) /\ ~mTask[c][i].hit /\ OutFound(mTask'[c][i].out)) =>
            /\ mErr'[c][i] = NoErr
            /\ mDest'[c][i] = mTask'[c][i].out.res
      ]_vars

\* ---------------------------------------------------------------- C20
\* the goroutine of index i runs although the record of its key was stored
\* when the call began: outside a transaction, with one caller and the key
\* once in the batch, the lookup of the call failed
LookupFailed(c, i) ==
    /\ ~inTx[c]
    /\ mTask[c][i].pc \in {"gen", "set"}
    /\ Keyify(mKeys[c][i]) \in DOMAIN cache
    /\ \A j \in DOMAIN mKeys[c] : mKeys[c][j] = mKeys[c][i] => j = i

\* C20 as stated: when the batched lookup fails, every key is a miss, and the
\* slot and the destination of each key follow from the outcome of its
\* generator alone; the lookup error appears in no slot.
C20_Original ==
    [][\A c \in Callers :
        /\ (Starts(c) /\ ~inTx[c] /\ ~svcUp) =>
              \A i \in DOMAIN mTask'[c] :
                  mTask'[c][i].pc = "gen" /\ mErr'[c][i] = ErrCacheMiss
        /\ \A i \in DOMAIN mTask[c] :
              (Finishes(c, i) /\ LookupFailed(c, i)) =>
                  /\ mErr'[c][i] = SlotOf(mTask'[c][i].out)
                  /\ mDest'[c][i] = DestOf(mTask'[c][i].out)
      ]_vars

\* ---------------------------------------------------------------- C17
\* this step belongs to a call of Get or Put by c
Accesses(c) == op'[c] # op[c]

\* C17 as stated: inside a transaction no operation of the cache layer reads
\* from or writes to the remote cache.
C17_Original ==
    [][\A c \in Callers :
        (inTx[c] /\ Accesses(c)) => (op'[c].remote = {} /\ cache' = cache)
      ]_vars

\* ---------------------------------------------------------------- C19
\* C19 as stated: Get returns err = nil and found = false for every failure
\* of the remote get, a miss and any other remote error alike.
C19_Original ==
    [][\A c \in Callers :
        (Gets(c) /\ "Get" \in op'[c].remote
                 /\ (~svcUp \/ Keyify(op'[c].key) \notin DOMAIN cache))
            => (~op'[c].found /\ op'[c].err = NoErr)
      ]_vars

\* ---------------------------------------------------------------- C21
\* this step belongs to the goroutine of index i
TaskSteps(c, i) == i \in DOMAIN mTask[c] /\ i \in DOMAIN mTask'[c] /\ mTask'[c][i] # mTask[c][i]
\* this step ends the goroutine of index i with a hard error of its generator
FailsHard(c, i) == Finishes(c, i) /\ OutHard(mTask'[c][i].out)

\* C21: in one call a generator's hard error stays with its own key. The
\* failing goroutine ends with that error in its slot, an untouched
\* destination and no write to the cache; a step of one goroutine changes
\* neither slot, destination nor progress of another; and a sibling whose
\* generator found a value and whose write-back is answered ends with nil,
\* the value in its destination and the plain record stored.
C21_BatchIndependence ==
    [][\A c \in Callers : \A i \in DOMAIN mTask[c] :
        /\ FailsHard(c, i) =>
              /\ mTask[c][i].pc = "gen" /\ cache' = cache
              /\ mErr'[c][i] = mTask'[c][i].out.err /\ mDest'[c][i] = ZeroVal
        /\ TaskSteps(c, i) =>
              \A j \in DOMAIN mTask[c] \ {i} :
                  /\ mTask'[c][j] = mTask[c][j]
                  /\ mErr'[c][j] = mErr[c][j] /\ mDest'[c][j] = mDest[c][j]
        /\ (Finishes(c, i) /\ mTask[c][i].pc = "set" /\ svcUp /\ OutFound(mTask'[c][i].out)) =>
              /\ mErr'[c][i] = NoErr /\ mDest'[c][i] = mTask'[c][i].out.res
              /\ Wrote(c, i, PlainItem(mTask'[c][i].out.res))
      ]_vars

\* a call of two different keys is about to return: the first generator
\* failed and nothing is stored for its key, the second key is populated
\* with nil and its record is stored
C21_Witness ==
    \E c \in Callers :
        /\ AllTasksDone(c) /\ ~inTx[c] /\ Len(mKeys[c]) = 2 /\ mKeys[c][1] # mKeys[c][2]
        /\ mErr[c][1] = GenErr /\ mDest[c][1] = ZeroVal /\ mGen[c][1] = 1
        /\ Keyify(mKeys[c][1]) \notin DOMAIN cache
        /\ mErr[c][2] = NoErr /\ mGen[c][2] = 1
        /\ Keyify(mKeys[c][2]) \in DOMAIN cache
        /\ cache[Keyify(mKeys[c][2])] = PlainItem(mDest[c][2])

\* ---------------------------------------------------------------- C22
\* this step is the panic of the goroutine of index i
Panics(c, i) == i \in Panicked(c)' /\ i \notin Panicked(c)

\* C22: when goroutines of a call panic, the siblings still run to their end
\* (a panic changes no sibling, and a sibling that ends afterwards copies its
\* value and stores its record), the call does not return normally, and it
\* panics once, after every goroutine has ended, with one entry for each
\* goroutine that panicked.
C22_PanicAfterAllTasks ==
    /\ [][\A c \in Callers :
            /\ (pc[c] = "memo" /\ pc'[c] = "idle") => Panicked(c) = {}
            /\ (pc[c] = "memo" /\ pc'[c] = "panic") =>
                  (AllTasksDone(c) /\ Panicked(c) # {} /\ panics'[c] = Panicked(c))
            /\ pc[c] = "panic" => (pc'[c] \in {"panic", "idle"} /\ mTask'[c] = <<>>)
            /\ \A i \in DOMAIN mTask[c] :
                  /\ Panics(c, i) =>
                        /\ cache' = cache /\ pc'[c] = "memo"
                        /\ \A j \in DOMAIN mTask[c] \ {i} : mTask'[c][j] = mTask[c][j]
                  /\ (Finishes(c, i) /\ Panicked(c) # {} /\ mTask[c][i].pc = "set"
                                     /\ svcUp /\ OutFound(mTask'[c][i].out)) =>
                        /\ mDest'[c][i] = mTask'[c][i].out.res
                        /\ Wrote(c, i, PlainItem(mTask'[c][i].out.res))
       ]_vars
    /\ \A c \in Callers : (pc[c] = "memo" /\ Panicked(c) # {}) ~> (pc[c] = "panic")

\* the call has panicked with the panics of both its goroutines
C22_Witness ==
    \E c \in Callers : pc[c] = "panic" /\ Cardinality(panics[c]) = 2

\* ---------------------------------------------------------------- C23
\* this step ends c's call of memoizeMulti, by a return or by a panic
EndsMemoize(c) == pc[c] = "memo" /\ pc'[c] # "memo"

\* C23: memoizeMulti returns or panics only when every goroutine it started
\* has ended: the slots and destinations it hands back are those the
\* goroutines left, the step itself writes nothing to the cache, and after it
\* no goroutine of the call is left that could write.
C23_ReturnsAfterAllTasks ==
    /\ [][\A c \in Callers :
            EndsMemoize(c) =>
                /\ AllTasksDone(c)
                /\ \A i \in DOMAIN mTask[c] :
                      mTask[c][i].hit \/ mGen[c][i] = 1
                /\ cache' = cache
                /\ mTask'[c] = <<>>
       ]_vars
    /\ [](\A c \in Callers : pc[c] # "memo" => mTask[c] = <<>>)

\* a call with two goroutines is about to return: both have run their
\* generator and ended, one with its record stored
C23_Witness ==
    \E c \in Callers :
        /\ AllTasksDone(c) /\ Panicked(c) = {} /\ Len(mKeys[c]) = 2
        /\ \A i \in 1..2 : mTask[c][i].pc = "done" /\ mGen[c][i] = 1
        /\ mErr[c][1] = NoErr /\ Keyify(mKeys[c][1]) \in DOMAIN cache

\* ---------------------------------------------------------------- C24
\* C24 as stated: while MemcacheEnabled is false no operation reads, writes
\* or deletes in the remote cache or enqueues a task: nothing is stored by
\* Put or by the write-back of a memoizer, Del neither deletes nor enqueues,
\* Get and the batched lookup report a miss.
C24_Original ==
    [][~MemcacheEnabled =>
          /\ cache' = cache /\ tasks' = tasks
          /\ \A c \in Callers :
                /\ Accesses(c) => (op'[c].remote = {} /\ ~op'[c].found /\ op'[c].err = NoErr)
                /\ Starts(c) => \A i \in DOMAIN mTask'[c] : mTask'[c][i].pc = "gen"
                /\ pc'[c] \notin {"del", "enqueue", "cset"}
      ]_vars

\* ---------------------------------------------------------------- C25
\* this step is a Memoize2 call of c that reads the seed of the stored super record
ReadsSeed(c) == pc[c] = "idle" /\ pc'[c] = "memo" /\ Keyify(superKey) \in DOMAIN cache
\* this step is the return of a Del(super) of c that reports nil, nothing queued
DelSuperDone(c) ==
    /\ pc[c] = "delret" /\ pc'[c] = "idle"
    /\ dOrig[c] = <<superKey>> /\ dErr[c] = NoErr /\ tasks = <<>>

\* C25 as stated: sub-keys memoized under one super key are served from the
\* cache without their generators while the super record stands; once
\* Del(super) has completed the super record is gone, so that the next
\* Memoize2 of each sub-key draws a new seed, looks up a key that differs from
\* the old one and invokes its generator, the old child records still stored.
C25_Original ==
    [][\A c \in Callers :
        /\ (ReadsSeed(c) /\ svcUp /\ Keyify(mKeys'[c][1]) \in DOMAIN cache) =>
              (mTask'[c][1].hit /\ mTask'[c][1].pc = "none")
        /\ DelSuperDone(c) => Keyify(superKey) \notin DOMAIN cache
        /\ (pc[c] = "seed" /\ pc'[c] = "memo") =>
              /\ Keyify(superKey) \in DOMAIN cache' /\ cache'[Keyify(superKey)].val = seeds'
              /\ mKeys'[c][1].seed = seeds' /\ seeds' # seeds
              /\ Keyify(mKeys'[c][1]) \notin DOMAIN cache
              /\ mTask'[c][1].pc = "gen"
      ]_vars

\* ------------------------------------------------------------------ C26
\* this step ends c's Put without an error
Stores(c) == pc[c] = "cset" /\ pc'[c] = "idle" /\ op'[c].err = NoErr
\* this step is a Get of c that finds the record a Put of v stored, with the
\* package switched on, outside a transaction and the service up
GetsStored(c, v) ==
    /\ Gets(c) /\ MemcacheEnabled /\ ~inTx[c] /\ svcUp
    /\ Keyify(op'[c].key) \in DOMAIN cache
    /\ cache[Keyify(op'[c].key)].val = Marshal(v)
    /\ op'[c].arg.kind = v.kind

\* C26 as stated: Put(k, v) stores v's encoding under k's fingerprint, and a
\* Get(k, out) that finds it returns found = true, err = nil and out equal
\* to v, whatever out held
C26_Original ==
    [][\A c \in Callers :
        /\ Stores(c) => /\ Keyify(op[c].key) \in DOMAIN cache'
                        /\ cache'[Keyify(op[c].key)].val = Marshal(op[c].arg)
        /\ \A v \in GobValues :
              GetsStored(c, v) => (op'[c].found /\ op'[c].err = NoErr /\ op'[c].val = v)]_vars

\* C26 amended: the round trip holds for a destination that holds the zero
\* value of v's type before the call. Put(k, v) stores v's encoding under
\* k's fingerprint; a Get(k, out) that finds it returns found = true and
\* err = nil; out equals v when out held the zero value, and in every case
\* out holds v's fields that are not zero and keeps its own elsewhere
C26_RoundTripIntoZero ==
    [][\A c \in Callers :
        /\ Stores(c) => /\ Keyify(op[c].key) \in DOMAIN cache'
                        /\ cache'[Keyify(op[c].key)].val = Marshal(op[c].arg)
        /\ \A v \in GobValues :
              GetsStored(c, v) =>
                  /\ op'[c].found /\ op'[c].err = NoErr
                  /\ op'[c].arg = ZeroOf(v) => op'[c].val = v
                  /\ v.kind = "string" => op'[c].val = v
                  /\ \A f \in GobFields :
                        op'[c].val[f] = IF v.kind = "struct" /\ v[f] = 0 THEN op'[c].arg[f] ELSE v[f]]_vars

\* a Get into a zeroed struct has returned the zero value that was Put
C26_Witness ==
    \E c \in Callers :
        /\ pc[c] = "idle" /\ op[c].name = "Get" /\ op[c].found /\ op[c].err = NoErr
        /\ op[c].arg = ZeroOf(op[c].arg) /\ op[c].arg.kind = "struct"
        /\ op[c].val = op[c].arg
        /\ Keyify(op[c].key) \in DOMAIN cache
        /\ cache[Keyify(op[c].key)].val = Marshal(op[c].val)

\* ------------------------------------------------------------------ C27
\* this step is the read of a CAS of c that the service answers
CasReads(c) == pc[c] = "idle" /\ op'[c] # op[c] /\ op'[c].name = "CAS" /\ svcUp
\* this step is the CompareAndSwap of a CAS of c
CasSwaps(c) == pc[c] = "cas" /\ pc'[c] = "idle"
\* c returns (false, nil) and the cache is as it was
CasNoSuccess(c) == pc'[c] = "idle" /\ ~op'[c].found /\ op'[c].err = NoErr /\ cache' = cache

\* C27: a CAS(k, expected, replacement) that the service answers and that no
\* write to k's record comes across: with k absent it returns (false, nil)
\* and no record is created; with a payload other than the encoding of
\* expected it returns (false, nil) and the record is as it was; with that
\* payload it goes on to CompareAndSwap without a write, returns (true, nil)
\* and leaves a record that decodes into replacement, the other records and
\* the record's flags as they were
C27_CasSequential ==
    [][\A c \in Callers :
        /\ CasReads(c) =>
              LET k == Keyify(op'[c].key)
              IN  /\ k \notin DOMAIN cache => CasNoSuccess(c)
                  /\ (k \in DOMAIN cache /\ cache[k].val # Marshal(op'[c].arg)) => CasNoSuccess(c)
                  /\ (k \in DOMAIN cache /\ cache[k].val = Marshal(op'[c].arg)) =>
                        (pc'[c] = "cas" /\ cache' = cache /\ casCurrent'[c])
        /\ (CasSwaps(c) /\ svcUp /\ casCurrent[c] /\ Keyify(op[c].key) \in DOMAIN cache) =>
              LET k == Keyify(op[c].key)
              IN  /\ op'[c].found /\ op'[c].err = NoErr
                  /\ DOMAIN cache' = DOMAIN cache
                  /\ \A x \in DOMAIN cache \ {k} : cache'[x] = cache[x]
                  /\ cache'[k].flags = cache[k].flags
                  /\ Decodable(cache'[k].val, ZeroOf(op[c].val))
                  /\ Unmarshal(cache'[k].val, ZeroOf(op[c].val)) = op[c].val]_vars

\* a CAS has replaced the record by another value and returned (true, nil)
C27_Witness ==
    \E c \in Callers :
        /\ pc[c] = "idle" /\ op[c].name = "CAS" /\ op[c].found /\ op[c].err = NoErr
        /\ op[c].arg # op[c].val
        /\ Keyify(op[c].key) \in DOMAIN cache
        /\ cache[Keyify(op[c].key)].val = Marshal(op[c].val)

\* ------------------------------------------------------------------ C28
\* C28: when a CAS stores its replacement, every other CAS that has read the
\* same record and not yet swapped holds an item that is no longer current;
\* a CompareAndSwap with such an item, answered by the service with the
\* record stored, returns (false, nil) and changes nothing. So of two
\* concurrent CAS on one record at most one succeeds and the record holds
\* its replacement
C28_CasConflict ==
    [][\A c \in Callers :
        /\ (CasSwaps(c) /\ op'[c].found) =>
              /\ casCurrent[c]
              /\ cache'[Keyify(op[c].key)].val = Marshal(op[c].val)
              /\ \A d \in Callers \ {c} :
                    (pc[d] = "cas" /\ op[d].key = op[c].key) => ~casCurrent'[d]
        /\ (CasSwaps(c) /\ ~casCurrent[c]) =>
              /\ ~op'[c].found /\ cache' = cache
              /\ (svcUp /\ Keyify(op[c].key) \in DOMAIN cache) => op'[c].err = NoErr]_vars

\* two CAS on the record holding x have both reached CompareAndSwap: one has
\* returned (true, nil), the other (false, nil), and the record holds the
\* replacement of the first
C28_Witness ==
    \E c \in Callers, d \in Callers :
        /\ c # d /\ pc[c] = "idle" /\ pc[d] = "idle"
        /\ op[c].name = "CAS" /\ op[d].name = "CAS"
        /\ op[c].key = op[d].key /\ op[c].arg = op[d].arg
        /\ op[c].val # op[d].val /\ op[c].val # op[c].arg /\ op[d].val # op[c].arg
        /\ op[c].remote = {"Get", "CompareAndSwap"} /\ op[d].remote = {"Get", "CompareAndSwap"}
        /\ op[c].found /\ op[c].err = NoErr
        /\ ~op[d].found /\ op[d].err = NoErr
        /\ cache[Keyify(op[c].key)].val = Marshal(op[c].val)

\* ------------------------------------------------------------------ C29
\* c is past the inner loop of Lock, in its transaction
InLockTransaction(c) == pc[c] \in {"lockf", "lockc"}

\* C29: at most one caller holds the name, and the entity is the holder's;
\* while a caller holds it no other caller is past the inner loop of Lock,
\* and no two callers are; a Lock returns nil only in a state where nobody
\* holds the name, after its transaction found no entity, which is after the
\* Unlock of the last holder deleted it
C29_MutualExclusion ==
    /\ [](/\ Cardinality(locked) <= 1
          /\ \A c \in locked : lockEntity = c
          /\ \A c \in Callers : InLockTransaction(c) =>
                /\ locked = {}
                /\ \A d \in Callers \ {c} : ~InLockTransaction(d))
    /\ [][\A c \in Callers :
            (c \notin locked /\ c \in locked') =>
                /\ locked = {} /\ locked' = {c}
                /\ pc[c] = "lockc" /\ lk[c].read = NoEntity /\ lockEntity = NoEntity
                /\ pc'[c] = "idle" /\ lk'[c].err = NoErr]_vars

\* the hand-off: d's Lock has returned nil while c's Unlock, which has deleted
\* the entity and the counter, is about to return
C29_Witness ==
    \E c \in Callers, d \in Callers :
        /\ c # d /\ locked = {d} /\ pc[d] = "idle"
        /\ pc[c] = "delret" /\ dOrig[c] = <<lockKey>> /\ dErr[c] = NoErr

\* ------------------------------------------------------------------ C30
\* this step is a pass of the loop of c's Put
PutTries(c) == pc[c] = "cset" /\ (pc'[c] # "cset" \/ op'[c] # op[c])
\* this step is a pass of the loop of the write-back of index i
WriteBackTries(c, i) ==
    /\ i \in DOMAIN mTask[c] /\ mTask[c][i].pc = "set"
    /\ i \in DOMAIN mTask'[c] /\ mTask'[c][i] # mTask[c][i]

\* a loop is about to make an attempt: the deadline has not passed, waitTime
\* is 10 ms doubled once for each of at most seven failures before, and the
\* time slept so far has passed
LoopAttempts(l) ==
    /\ l.el < DeadlineMs
    /\ \E k \in 0..7 : l.wait = InitialWaitMs * 2^k
    /\ l.el >= l.wait - InitialWaitMs
\* the attempt failed: waitTime has passed and is doubled, and the loop goes
\* on exactly when the deadline has not passed
LoopFailed(l, m, goesOn) ==
    /\ m.wait = 2 * l.wait
    /\ m.el >= Min(l.el + l.wait, DeadlineMs)
    /\ goesOn <=> m.el < DeadlineMs

\* C30: every attempt of the three loops starts before 2 s have passed, the
\* first at once with a waitTime of 10 ms; an attempt without an error ends
\* the loop; after an attempt with an error waitTime passes and doubles, and
\* the loop goes on only if less than 2 s have passed, else the error is
\* returned (write) or the task is enqueued (delete); no loop makes more than
\* 8 attempts
C30_RetrySchedule ==
    [][\A c \in Callers :
        /\ DelTries(c) =>
              /\ LoopAttempts(dLoop[c])
              /\ dLoop[c].wait = InitialWaitMs * 2^(dLoop[c].n)
              /\ dLoop[c].n = 0 => dLoop[c].el = 0
              /\ dLoop'[c].n <= 8
              /\ IF dErr'[c] = NoErr
                 THEN pc'[c] = "delret"
                 ELSE /\ LoopFailed(dLoop[c], dLoop'[c], pc'[c] = "del")
                      /\ pc'[c] \in {"del", "enqueue"}
        /\ PutTries(c) =>
              /\ LoopAttempts(op[c])
              /\ ~("Set" \in op[c].remote) => (op[c].el = 0 /\ op[c].wait = InitialWaitMs)
              /\ IF svcUp
                 THEN pc'[c] = "idle" /\ op'[c].err = NoErr
                 ELSE /\ LoopFailed(op[c], op'[c], pc'[c] = "cset")
                      /\ pc'[c] = "idle" => op'[c].err = SetErr
        /\ \A i \in 1..MaxBatch :
              WriteBackTries(c, i) =>
                  /\ LoopAttempts(mTask[c][i])
                  /\ IF svcUp
                     THEN mTask'[c][i].pc = "done" /\ mErr'[c][i] # SetErr
                     ELSE \/ LoopFailed(mTask[c][i], mTask'[c][i], TRUE) /\ mTask'[c][i].pc = "set"
                          \/ mTask'[c][i].pc = "done" /\ mErr'[c][i] = SetErr]_vars

\* the delete loop has made 8 attempts, all of them failed at once, and is
\* about to enqueue the task
C30_Witness ==
    \E c \in Callers :
        /\ pc[c] = "enqueue" /\ dLoop[c].n = 8
        /\ dLoop[c].wait = InitialWaitMs * 2^8

\* ------------------------------------------------------------------ C31
\* this step is the generator of index i of a call with cacheNil = false
\* returning not-found: nil without error, or ErrCacheMiss
GeneratesNotFound(c, i) ==
    /\ i \in DOMAIN mTask[c] /\ mTask[c][i].pc = "gen" /\ ~mNil[c]
    /\ i \in DOMAIN mTask'[c] /\ mTask'[c][i].pc \in {"set", "done"}
    /\ ~Classify(mTask'[c][i].out).hard /\ ~Classify(mTask'[c][i].out).found

\* C31: with cacheNil = false a generator that returns not-found ends its
\* task at once: no write-back is started and the cache is as it was, the
\* slot holds ErrCacheMiss and the destination is untouched; and a call that
\* finds no record of a key starts the generator of that key
C31_NoNegativeCaching ==
    [][\A c \in Callers :
        /\ \A i \in 1..MaxBatch :
              GeneratesNotFound(c, i) =>
                  /\ mTask'[c][i].pc = "done"
                  /\ cache' = cache
                  /\ mErr'[c][i] = ErrCacheMiss
                  /\ mDest'[c][i] = mDest[c][i] /\ mDest'[c][i] = ZeroVal
        /\ (pc[c] = "idle" /\ pc'[c] = "memo") =>
              \A i \in DOMAIN mKeys'[c] :
                  Keyify(mKeys'[c][i]) \notin DOMAIN cache => mTask'[c][i].pc = "gen"]_vars

\* outside a transaction a generator has returned not-found to a call with
\* cacheNil = false, and the key has no record
C31_Witness ==
    \E c \in Callers, i \in 1..MaxBatch :
        /\ pc[c] = "memo" /\ ~mNil[c] /\ ~inTx[c] /\ i \in DOMAIN mTask[c]
        /\ mTask[c][i].pc = "done" /\ mGen[c][i] = 1
        /\ mErr[c][i] = ErrCacheMiss /\ mDest[c][i] = ZeroVal
        /\ Keyify(mKeys[c][i]) \notin DOMAIN cache

\* ------------------------------------------------------------------ C32
\* this step belongs to a Memoize2 call of c: its read of the super record
\* or its storing of a new seed
Memoize2Steps(c) == (pc[c] = "idle" /\ pc'[c] \in {"seed", "memo"}) \/ pc[c] = "seed"

\* C32 as stated: while a seed record is stored under the super key, no step
\* of a Memoize2 call writes that record, and a call that goes on to Memoize
\* has made its child key of the stored seed
C32_Original ==
    [][\A c \in Callers :
        (Memoize2Steps(c) /\ Keyify(superKey) \in DOMAIN cache) =>
            /\ Keyify(superKey) \in DOMAIN cache'
            /\ cache'[Keyify(superKey)] = cache[Keyify(superKey)]
            /\ pc'[c] = "memo" => mKeys'[c][1].seed = cache[Keyify(superKey)].val]_vars

\* ------------------------------------------------------------------ C33
\* this step is the start of a Memoize2 call of c while a seed record is
\* stored and no call is about to store a seed
StartsAfterSeeds(c) ==
    /\ pc[c] = "idle" /\ pc'[c] \in {"seed", "memo"}
    /\ Keyify(superKey) \in DOMAIN cache
    /\ \A d \in Callers : pc[d] # "seed"

\* C33 as stated: each of two concurrent first calls stores the seed it
\* minted and derives its child key from it, so that the record holds the
\* seed written last; every Memoize2 call that starts once no call is about
\* to store a seed derives its child key from the stored seed
C33_Original ==
    [][\A c \in Callers :
        /\ (pc[c] = "seed" /\ pc'[c] = "memo") =>
              /\ cache'[Keyify(superKey)].val = seeds' /\ seeds' = seeds + 1
              /\ mKeys'[c][1].seed = seeds'
        /\ StartsAfterSeeds(c) =>
              /\ pc'[c] = "memo"
              /\ mKeys'[c][1].seed = cache[Keyify(superKey)].val
              /\ cache' = cache]_vars


\* C34: Memoize2 never fails because of the seed record: a call that has to
\* store a fresh seed, after a miss or a failed read of the super record,
\* goes on to Memoize with the child key and returns no error of its own,
\* also when the memcache.Set of the seed fails.
C34_Original ==
    [][\A c \in Callers :
        (pc[c] = "seed" /\ pc'[c] # "seed") =>
            /\ pc'[c] = "memo"
            /\ op'[c].err = NoErr]_vars


\* ---------------------------------------------------------------- C35
\* the goroutine of t has ended, or none was started for its index
HasSent(t) == t.pc \in {"none", "done", "panicked"}

\* C35: in a call of memoizeMulti over N keys every index puts exactly one
\* message on panicChan: at once for a hit, a nil-marked hit and a record that
\* does not decode, and at its end for a goroutine, however it ends; the
\* channel never holds more than its capacity N, so no send blocks; the
\* coordinator ends the call having received N messages; and the call ends
\* whenever its generators and write attempts end.
C35_FanIn ==
    /\ [](\A c \in Callers : pc[c] = "memo" =>
            /\ \A i \in DOMAIN mTask[c] :
                  mTask[c][i].sent = IF HasSent(mTask[c][i]) THEN 1 ELSE 0
            /\ panicChan(c) <= Len(mKeys[c]))
    /\ [][\A c \in Callers : EndsMemoize(c) => panicChan(c) = Len(mKeys[c])]_vars
    /\ \A c \in Callers : (pc[c] = "memo") ~> (pc[c] # "memo")

\* a call over two keys has all its messages: one of a record that did not
\* decode, one of a goroutine that panicked
C35_Witness ==
    /\ pc["c1"] = "memo" /\ Len(mKeys["c1"]) = 2
    /\ mErr["c1"][1] = DecodeErr /\ mTask["c1"][1].pc = "none"
    /\ mTask["c1"][2].pc = "panicked"
    /\ panicChan("c1") = 2


\* ---------------------------------------------------------------- C36
\* the indices i and j of c's call carry the same fingerprint
SameFingerprint(c, i, j) == i # j /\ Keyify(mKeys[c][i]) = Keyify(mKeys[c][j])

\* C36: within one call of MemoizeMulti no two goroutines compute or write
\* back the same fingerprint: when the key list holds one key at two indices,
\* its generator runs at most once and at most one write-back of it is made
\* in that call.
C36_Original ==
    \A c \in Callers : \A i, j \in DOMAIN mKeys[c] :
        SameFingerprint(c, i, j) =>
            /\ mGen[c][i] + mGen[c][j] <= 1
            /\ ~(mTask[c][i].pc = "set" /\ mTask[c][j].pc = "set")


\* ---------------------------------------------------------------- C37
\* this step is c's call of memoizeMulti with its batched lookup
StartsMemoize(c) == pc[c] = "idle" /\ pc'[c] = "memo"

\* the batched lookup of c is answered and finds under key a record that
\* does not decode into the destination
FindsForeign(c, key) ==
    /\ MemcacheEnabled /\ ~inTx[c] /\ svcUp
    /\ Keyify(key) \in DOMAIN cache
    /\ cache[Keyify(key)].val = Foreign

\* C37: when the batched lookup finds a record that does not decode into the
\* destination, the slot of that key is the decode error until the call
\* ends, its destination is left alone, its generator is not invoked and the
\* call writes nothing under it; the other keys of the batch are treated as
\* without it: a miss starts its goroutine, a record that decodes is a hit.
C37_DecodeError ==
    /\ [][\A c \in Callers : StartsMemoize(c) =>
            \A i \in DOMAIN mKeys'[c] :
                /\ FindsForeign(c, mKeys'[c][i]) =>
                      /\ mErr'[c][i] = DecodeErr
                      /\ mTask'[c][i].pc = "none"
                /\ (MemcacheEnabled /\ ~inTx[c] /\ svcUp
                        /\ Keyify(mKeys'[c][i]) \notin DOMAIN cache) =>
                      /\ mErr'[c][i] = ErrCacheMiss
                      /\ mTask'[c][i].pc = "gen"
                /\ (MemcacheEnabled /\ ~inTx[c] /\ svcUp
                        /\ Keyify(mKeys'[c][i]) \in DOMAIN cache
                        /\ cache[Keyify(mKeys'[c][i])].val # Foreign
                        /\ ~IsNilFlagged(cache[Keyify(mKeys'[c][i])])) =>
                      /\ mErr'[c][i] = NoErr
                      /\ mDest'[c][i] = cache[Keyify(mKeys'[c][i])].val
       ]_vars
    /\ [](\A c \in Callers : \A i \in DOMAIN mErr[c] :
            mErr[c][i] = DecodeErr =>
                /\ mGen[c][i] = 0
                /\ mDest[c][i] = ZeroVal
                /\ mTask[c][i].pc = "none")
    /\ [][\A c \in Callers : \A i \in DOMAIN mErr[c] :
            (mErr[c][i] = DecodeErr /\ pc'[c] = "memo") =>
                /\ mErr'[c][i] = DecodeErr
                /\ (mTask'[c] # mTask[c] /\ Keyify(mKeys[c][i]) \in DOMAIN cache) =>
                      /\ Keyify(mKeys[c][i]) \in DOMAIN cache'
                      /\ cache'[Keyify(mKeys[c][i])] = cache[Keyify(mKeys[c][i])]
       ]_vars

\* a call over two keys is about to return: the record of the first did not
\* decode and is still there, the second was generated and written back
C37_Witness ==
    /\ AllTasksDone("c1") /\ Len(mKeys["c1"]) = 2
    /\ mErr["c1"][1] = DecodeErr /\ mGen["c1"][1] = 0
    /\ Keyify(mKeys["c1"][1]) \in DOMAIN cache
    /\ cache[Keyify(mKeys["c1"][1])].val = Foreign
    /\ mErr["c1"][2] = NoErr /\ mGen["c1"][2] = 1
    /\ Keyify(mKeys["c1"][2]) \in DOMAIN cache
    /\ cache[Keyify(mKeys["c1"][2])] = PlainItem(mDest["c1"][2])


\* ---------------------------------------------------------------- C38
\* the record a function f leaves when it is called with a context that is
\* not in a transaction
OuterCall(f) == [f |-> f, inTx |-> FALSE]

\* C38: a function given to AfterTransaction inside a transaction, nested
\* Transaction calls included, is appended to the callbacks and not called;
\* the commit finds them all; after it they are called one by one from the
\* first, each once, with the context that is not in a transaction; the error
\* of one is appended to multiErr and the next is called all the same;
\* Transaction returns when none is left, with the errors collected. Outside
\* a transaction AfterTransaction calls the function at once.
C38_CallbacksAfterCommit ==
    /\ [][\A c \in Callers :
            /\ (inTx[c] /\ inTx'[c] /\ tries'[c] = tries[c] /\ afterTx'[c] # afterTx[c]) =>
                  /\ Len(afterTx'[c]) = Len(afterTx[c]) + 1
                  /\ SubSeq(afterTx'[c], 1, Len(afterTx[c])) = afterTx[c]
            /\ inTx[c] => cbLog'[c] = cbLog[c]
            /\ txDepth'[c] # txDepth[c] => (inTx'[c] /\ afterTx'[c] = afterTx[c])
            /\ (inTx[c] /\ ~inTx'[c] /\ pc'[c] = "aftertx") =>
                  (txDepth[c] = 0 /\ afterTx'[c] = afterTx[c] /\ multiErr'[c] = <<>>)
            /\ (InCallbacks(c) /\ afterTx'[c] # afterTx[c]) =>
                  /\ afterTx[c] # <<>>
                  /\ afterTx'[c] = Tail(afterTx[c])
                  /\ Head(afterTx[c]).f \in Funcs =>
                        /\ cbLog'[c] = Append(cbLog[c], OuterCall(Head(afterTx[c]).f))
                        /\ multiErr'[c] = IF Head(afterTx[c]).fails
                                          THEN Append(multiErr[c], Head(afterTx[c]).f)
                                          ELSE multiErr[c]
            /\ (InCallbacks(c) /\ cbLog'[c] # cbLog[c]) => afterTx'[c] # afterTx[c]
            /\ (pc[c] = "aftertx" /\ pc'[c] = "idle") =>
                  (afterTx[c] = <<>> /\ multiErr'[c] = multiErr[c])
            /\ (~inTx[c] /\ pc[c] = "idle" /\ cbLog'[c] # cbLog[c]) =>
                  /\ \E f \in Funcs : cbLog'[c] = Append(cbLog[c], OuterCall(f))
                  /\ afterTx'[c] = afterTx[c] /\ pc'[c] = "idle"
       ]_vars
    /\ [](\A c \in Callers : \A i \in DOMAIN cbLog[c] : ~cbLog[c][i].inTx)

\* Transaction has returned: f1 and f2 were called in the order of their
\* registration, both failed and both errors are returned
C38_Witness ==
    /\ pc["c1"] = "idle" /\ ~inTx["c1"] /\ afterTx["c1"] = <<>>
    /\ tries["c1"] = 0
    /\ cbLog["c1"] = <<OuterCall("f1"), OuterCall("f2")>>
    /\ multiErr["c1"] = <<"f1", "f2">>


\* ---------------------------------------------------------------- C39
\* c is inside Lock
InLock(c) == pc[c] \in {"spin", "lockf", "lockc"}

\* C39: when the holder of the name never unlocks, the Lock of another
\* caller returns after the LockedAt of the stored entity has become older
\* than the timeout.
C39_Original ==
    \A c \in Callers : (InLock(c) /\ lockEntity # NoEntity /\ lockExpired) ~> (pc[c] = "idle")

====
